---- MODULE Spec2Model ----
(***************************************************************************)
(* Model of the simcpp20 discrete-event simulation kernel                  *)
(* (include/fschuetz04/simcpp20: simulation.hpp, event.hpp, process.hpp,   *)
(* promise_type.hpp).                                                      *)
(*                                                                         *)
(* The program state is the simulation object (now_, scheduled_evs_,       *)
(* next_id_, handles_), the shared data of every event created so far      *)
(* (evs) and the frame of every coroutine spawned so far (procs).  Every   *)
(* member function is an operator from a state record to a state record;   *)
(* an action applies one public call to the current state.                 *)
(*                                                                         *)
(* n_ptrs are the shared counters of the all_of calls.  A read of the      *)
(* payload of a value event that has none dereferences a null pointer: it  *)
(* ends the program (crashed: nothing runs any more) or yields whatever    *)
(* the memory holds (garbage), as null_read says.                          *)
(*                                                                         *)
(* evlog, seen, popped, hist and made are history variables: they record   *)
(* what the kernel did (per event: when it was processed, who was         *)
(* suspended on it, resumed, destroyed or called back, and the payload it  *)
(* had then; the now() every notification observed; the                    *)
(* heap entries step() took; the states an event went through; the any_of  *)
(* and all_of calls) and are never read by the modelled code.              *)
(***************************************************************************)
EXTENDS Integers, Sequences, FiniteSets, TLC

\* ---------------------------------------------------------------- bounds
\* Number of events the main program creates when it calls no coroutine.
MaxEvents == 2
\* Number of events the main program creates when it calls coroutines.
MaxActorEvents == 1
\* Number of coroutine functions the main program calls.
MaxProcs == 2
\* Number of callbacks the main program adds.
MaxCbs == 2
\* Number of sim.schedule() calls the main program makes.
MaxSchedule == 1
\* Largest time the main program runs to with run_until().
MaxTime == 2

\* A main program with a callback that calls run_until() itself: the number
\* of events it creates, of coroutine functions it calls, of recording
\* callbacks it adds, of schedule() calls, and of callbacks that call
\* run_until().
MaxNestedEvents == 1
MaxNestedProcs == 1
MaxNestedCbs == 1
MaxNestedSchedule == 1
MaxNestedCalls == 1

\* A main program that calls any_of or all_of: the number of events it
\* creates, of callbacks it adds, of coroutines it starts that await an
\* output, and of any_of (all_of) calls.
MaxCombinatorEvents == 2
MaxCombinatorCbs == 1
MaxAwaiters == 1
MaxCombinators == 1

\* Delays passed to timeout() and schedule(); run_until() targets are now + d.
\* A main program that uses value events: the number of value events it
\* creates, of schedule calls, and of coroutines it starts that await one
\* (the program that calls the typed any_of creates as many value events).
MaxValueEvents == 2
MaxValueSchedule == 1
MaxValueAwaiters == 1

\* A main program that calls value-returning coroutine functions
\* (producers) and coroutine functions that call one and await it
\* (consumers).
MaxProducers == 1
MaxConsumers == 2

\* A main program whose callbacks and coroutines add callbacks: the number
\* of events it creates, of callbacks it adds itself, and of coroutines.
MaxCallbackEvents == 2
MaxCallbackAdds == 2
MaxCallbackAdders == 1

\* A main program that does not keep to the preconditions of the calls: the
\* number of events it creates and of schedule() calls it makes.
MaxUncheckedEvents == 1
MaxUncheckedSchedule == 2

\* A main program whose coroutines throw: the number of coroutine
\* functions it calls, of coroutines awaiting them and of callbacks it adds.
MaxThrowers == 2
MaxWatchers == 1
MaxWatcherCbs == 1

\* The clocks of the README: the number of clock_proc calls and the time
\* the main program runs to.
MaxClocks == 2
ClockEnd == 5

\* The users of a resource: the number of resource_user calls, of requests
\* and of releases the main program makes itself.
MaxUsers == 3
MaxMainRequests == 1
MaxMainReleases == 1

\* The users of a resource of whom some give up waiting: the number of
\* resource_user calls and of calls of a coroutine that waits with a timeout.
MaxPatient == 2
MaxImpatient == 1

\* The users of a store: the number of put() and get() calls of the main
\* program and of coroutines that await a get().
MaxPuts == 3
MaxGets == 2
MaxGetters == 1

Delays == {0, 1}
\* The capacities of a store and the values the main program puts, in the
\* order of its put() calls.
StoreCapacities == {1, 2}
PutValues == <<"100", "200", "300">>
\* The time an impatient user waits and the time it holds the instance.
WaitTime == 5
\* The instances a resource starts with and the times its users hold one.
Capacities == {1, 2}
UseTimes == {5, 10}
\* The delays of the clocks: fast and slow.
ClockDelays == {1, 2}
\* Delays of a program that also passes negative ones.
AnyDelays == {-1, 0, 1}
\* Times an undefined read of the heap's memory may yield.
GarbageTimes == {-1, 0, 1}
\* Delays used by co_await sim.timeout(d) inside coroutine bodies.
BodyDelays == {1}

\* What the main program may still do: create `events` events with event() or
\* timeout(), call `procs` coroutine functions, add `cbs` callbacks and call
\* schedule() `sched` times.
NestedProgram ==
  [events |-> MaxNestedEvents, procs |-> MaxNestedProcs,
   cbs |-> MaxNestedCbs, sched |-> MaxNestedSchedule, awaiters |-> 0,
   any_of |-> 0, all_of |-> 0, nested |-> MaxNestedCalls]
KernelProgram ==
  [events |-> MaxEvents, procs |-> 0, cbs |-> MaxCbs, sched |-> MaxSchedule,
   awaiters |-> 0, any_of |-> 0, all_of |-> 0]
ActorProgram ==
  [events |-> MaxActorEvents, procs |-> MaxProcs, cbs |-> MaxCbs, sched |-> 0,
   awaiters |-> 0, any_of |-> 0, all_of |-> 0]
AnyOfProgram ==
  [events |-> MaxCombinatorEvents, procs |-> 0, cbs |-> MaxCombinatorCbs,
   sched |-> 0, awaiters |-> MaxAwaiters,
   any_of |-> MaxCombinators, all_of |-> 0]
ValueProgram ==
  [events |-> MaxValueEvents, procs |-> 0, cbs |-> 0,
   sched |-> MaxValueSchedule, awaiters |-> MaxValueAwaiters,
   any_of |-> 0, all_of |-> 0]
TypedAnyOfProgram ==
  [events |-> MaxValueEvents, procs |-> 0, cbs |-> 0, sched |-> 0,
   awaiters |-> MaxAwaiters, any_of |-> MaxCombinators, all_of |-> 0]
ValueActorProgram ==
  [events |-> 0, procs |-> MaxProducers, cbs |-> 0, sched |-> 0,
   awaiters |-> MaxConsumers, any_of |-> 0, all_of |-> 0]
CallbackProgram ==
  [events |-> MaxCallbackEvents, procs |-> 0, cbs |-> MaxCallbackAdds,
   sched |-> 0, awaiters |-> MaxCallbackAdders, any_of |-> 0, all_of |-> 0]
UncheckedProgram ==
  [events |-> MaxUncheckedEvents, procs |-> 0, cbs |-> 0,
   sched |-> MaxUncheckedSchedule, awaiters |-> 0, any_of |-> 0,
   all_of |-> 0]
ThrowingProgram ==
  [events |-> 0, procs |-> MaxThrowers, cbs |-> MaxWatcherCbs, sched |-> 0,
   awaiters |-> MaxWatchers, any_of |-> 0, all_of |-> 0]
ClockProgram ==
  [events |-> 0, procs |-> MaxClocks, cbs |-> 0, sched |-> 0,
   awaiters |-> 0, any_of |-> 0, all_of |-> 0]
ResourceProgram ==
  [events |-> MaxMainRequests, procs |-> MaxUsers, cbs |-> 0, sched |-> 0,
   awaiters |-> 0, any_of |-> 0, all_of |-> 0, releases |-> MaxMainReleases]
ImpatientProgram ==
  [events |-> 0, procs |-> MaxPatient, cbs |-> 0, sched |-> 0,
   awaiters |-> MaxImpatient, any_of |-> 0, all_of |-> 0]
StoreProgram ==
  [events |-> 0, procs |-> MaxGetters, cbs |-> 0, sched |-> 0,
   awaiters |-> 0, any_of |-> 0, all_of |-> 0, puts |-> MaxPuts,
   gets |-> MaxGets]
AllOfProgram ==
  [events |-> MaxCombinatorEvents, procs |-> 0, cbs |-> MaxCombinatorCbs,
   sched |-> 0, awaiters |-> MaxAwaiters,
   any_of |-> 0, all_of |-> MaxCombinators]

VARIABLES now_, scheduled_evs_, next_id_, handles_, evs, procs, n_ptrs,
          crashed, null_read, garbage_time, ndebug, available_, requests_,
          values_, capacity_, gets_, puts_, printed,
          evlog, seen, popped, hist, made, held, budget

vars == <<now_, scheduled_evs_, next_id_, handles_, evs, procs, n_ptrs,
          crashed, null_read, garbage_time, ndebug, available_, requests_,
          values_, capacity_, gets_, puts_, printed,
          evlog, seen, popped, hist, made, held, budget>>

\* The program variables (everything but the history variables).
prog == <<now_, scheduled_evs_, next_id_, handles_, evs, procs, n_ptrs>>

\* The current state as one record, the argument of the operators below.
St == [now_ |-> now_, scheduled_evs_ |-> scheduled_evs_, next_id_ |-> next_id_,
       handles_ |-> handles_, evs |-> evs, procs |-> procs, n_ptrs |-> n_ptrs,
       crashed |-> crashed, null_read |-> null_read,
       garbage_time |-> garbage_time, ndebug |-> ndebug,
       available_ |-> available_, requests_ |-> requests_,
       values_ |-> values_, capacity_ |-> capacity_, gets_ |-> gets_,
       puts_ |-> puts_, printed |-> printed,
       evlog |-> evlog, seen |-> seen, popped |-> popped, hist |-> hist,
       made |-> made]

\* ------------------------------------------------------------ history
\* Something happened to coroutine or callback who on event e.
Note(s, k, who, e) ==
  [s EXCEPT !.evlog[e] = Append(@, [k |-> k, who |-> who, t |-> s.now_,
                                    v |-> s.evs[e].value_])]

\* A resumed coroutine or a called callback observes now().
Observe(s) == [s EXCEPT !.seen = Append(@, s.now_)]

\* ------------------------------------------------------------ event
\* event::pending / triggered / processed / aborted
pending(s, e) == s.evs[e].state_ = "pending"
processed(s, e) == s.evs[e].state_ = "processed"
aborted(s, e) == s.evs[e].state_ = "aborted"
triggered(s, e) == s.evs[e].state_ = "triggered" \/ processed(s, e)

\* data_->state_ = x
set_state(s, e, x) ==
  [s EXCEPT !.evs[e].state_ = x, !.hist[e] = Append(@, x)]

\* The empty payload slot of a value event (an event<> has no slot), and
\* what a read through it yields when the program goes on.
nullptr == "nullptr"
garbage == "garbage"

\* event::event(sim): a new shared data object, state_ = pending.
new_event(s) ==
  [s EXCEPT !.evs = Append(@, [state_ |-> "pending", promises_ |-> <<>>,
                               cbs_ |-> <<>>, typed |-> FALSE,
                               value_ |-> nullptr]),
            !.hist = Append(@, <<"pending">>),
            !.evlog = Append(@, <<>>)]

\* value_event::value_event(sim): the data has a payload slot value_, empty
\* at first.
new_value_event(s) ==
  LET s1 == new_event(s) IN [s1 EXCEPT !.evs[Len(s1.evs)].typed = TRUE]

\* ------------------------------------------------------------ scheduler
\* A comparison that breaks ties by the larger id.
Gt_larger_id_first(a, b) ==
  IF a.time_ # b.time_ THEN a.time_ > b.time_ ELSE a.id_ < b.id_

\* scheduled_event::operator>
Gt(a, b) ==
  IF a.time_ # b.time_ THEN a.time_ > b.time_ ELSE a.id_ > b.id_

\* std::priority_queue<..., std::greater<scheduled_event>>::top(): the entry
\* that is greater than no other entry.
top(q) == CHOOSE a \in q : \A b \in q : ~Gt(a, b)

\* simulation::empty
empty(s) == s.scheduled_evs_ = {}

\* A schedule that takes the delay for the absolute time of the entry.
schedule_absolute(s, e, delay) ==
  [s EXCEPT !.scheduled_evs_ =
               @ \cup {[time_ |-> delay, id_ |-> s.next_id_, ev_ |-> e]},
            !.next_id_ = @ + 1]

\* simulation::schedule: assert(delay >= 0) ends the program in a build
\* with assertions and is no code at all in a build with NDEBUG.
\* A schedule() that reads its delay as a point in time.
schedule_at(s, e, delay) ==
  IF delay < 0 /\ ~s.ndebug
  THEN [s EXCEPT !.crashed = TRUE]
  ELSE [s EXCEPT !.scheduled_evs_ =
                    @ \cup {[time_ |-> delay, id_ |-> s.next_id_,
                             ev_ |-> e]},
                 !.next_id_ = @ + 1]

schedule(s, e, delay) ==
  IF delay < 0 /\ ~s.ndebug
  THEN [s EXCEPT !.crashed = TRUE]
  ELSE [s EXCEPT !.scheduled_evs_ =
                    @ \cup {[time_ |-> s.now_ + delay, id_ |-> s.next_id_,
                             ev_ |-> e]},
                 !.next_id_ = @ + 1]

\* simulation::timeout: the new event is Len(evs) of the result.
timeout(s, delay) ==
  LET s1 == new_event(s) IN schedule(s1, Len(s1.evs), delay)

\* A trigger without the check of the state.
trigger_unguarded(s, e) == set_state(schedule(s, e, 0), e, "triggered")

\* event::trigger
trigger(s, e) ==
  IF ~pending(s, e) THEN s
  ELSE set_state(schedule(s, e, 0), e, "triggered")

\* value_event::set_value
set_value(s, e, v) == [s EXCEPT !.evs[e].value_ = v]

\* value_event::value: *casted_data->value_.  With an empty slot this
\* dereferences a null pointer: the program ends, or goes on with some value.
value(s, e) ==
  IF s.evs[e].value_ # nullptr THEN s.evs[e].value_ ELSE garbage

\* The state after value() was evaluated.
deref(s, e) ==
  IF s.evs[e].value_ = nullptr /\ s.null_read = "crash"
  THEN [s EXCEPT !.crashed = TRUE] ELSE s

\* A value_event::trigger that stores the payload whatever the state is.
trigger_value_overwrites(s, e, v) ==
  IF ~pending(s, e) THEN set_value(s, e, v) ELSE trigger(set_value(s, e, v), e)

\* value_event::trigger(value)
trigger_value(s, e, v) ==
  IF ~pending(s, e) THEN s ELSE trigger(set_value(s, e, v), e)

\* simulation::timeout<Value>(delay, value)
timeout_value(s, delay, v) ==
  LET s1 == new_value_event(s)
      ev == Len(s1.evs)
  IN schedule(set_value(s1, ev, v), ev, delay)

\* A destroy that completes the coroutine: its completion event is
\* triggered as if it had returned.
destroy_completes(s, p, e) ==
  trigger(Note([s EXCEPT !.procs[p].status = "destroyed",
                         !.handles_ = @ \ {p}],
               "destroy", p, e),
          s.procs[p].ev_)

\* A destroy whose promise destructor leaves the handle in the registry.
destroy_keeps_handle(s, p, e) ==
  Note([s EXCEPT !.procs[p].status = "destroyed"], "destroy", p, e)

\* coroutine_handle::destroy on a suspended coroutine: the frame and its
\* promise are destroyed, ~generic_promise_type erases the handle.
destroy(s, p, e) ==
  Note([s EXCEPT !.procs[p].status = "destroyed", !.handles_ = @ \ {p}],
       "destroy", p, e)

RECURSIVE destroy_all(_, _, _, _)
destroy_all(s, e, temp_promises, i) ==
  IF i > Len(temp_promises) THEN s
  ELSE destroy_all(destroy(s, temp_promises[i], e), e, temp_promises, i + 1)

\* An abort that iterates over promises_ in place: the list keeps the
\* destroyed coroutines.
abort_keeps_promises(s, e) ==
  IF ~pending(s, e) THEN s
  ELSE LET s1 == set_state(s, e, "aborted")
           s2 == [s1 EXCEPT !.evs[e].cbs_ = <<>>]
       IN destroy_all(s2, e, s.evs[e].promises_, 1)

\* An abort without the check of the state.
abort_unguarded(s, e) ==
  LET temp_promises == s.evs[e].promises_
      s1 == set_state(s, e, "aborted")
      s2 == [s1 EXCEPT !.evs[e].cbs_ = <<>>, !.evs[e].promises_ = <<>>]
  IN destroy_all(s2, e, temp_promises, 1)

\* An abort that leaves the awaiting coroutines and the callbacks in place.
abort_state_only(s, e) ==
  IF ~pending(s, e) THEN s ELSE set_state(s, e, "aborted")

\* event::abort
abort(s, e) ==
  IF ~pending(s, e) THEN s
  ELSE LET temp_promises == s.evs[e].promises_
           s1 == set_state(s, e, "aborted")
           s2 == [s1 EXCEPT !.evs[e].cbs_ = <<>>, !.evs[e].promises_ = <<>>]
       IN destroy_all(s2, e, temp_promises, 1)

\* event::add_callback; a callback is [kind, arg, aux]:
\*   "log"      the callback records that it ran (arg is its tag),
\*   "trigger"  the closure of any_of: it triggers event arg,
\*   "count"    the closure of all_of: it decrements counter aux and triggers
\*              event arg when the counter is 0,
\*   "trigger_value"  the closure of the typed any_of: it triggers value
\*              event arg with the payload of value event aux,
\*   "add"      the callback adds a "log" callback to event aux.
\* An add_callback without the check of the state.
add_callback_unguarded(s, e, cb) ==
  Note([s EXCEPT !.evs[e].cbs_ = Append(@, cb)], "add_cb", cb.arg, e)

\* event::add_callback
add_callback(s, e, cb) ==
  IF processed(s, e) \/ aborted(s, e) THEN s
  ELSE Note([s EXCEPT !.evs[e].cbs_ = Append(@, cb)], "add_cb", cb.arg, e)

\* ------------------------------------------------------------ store
\* A trigger_gets that serves the newest get first.
RECURSIVE trigger_gets_newest_first(_)
trigger_gets_newest_first(s) ==
  IF s.values_ # <<>> /\ s.gets_ # <<>>
  THEN LET ev == s.gets_[Len(s.gets_)]
           s1 == [s EXCEPT !.gets_ = SubSeq(@, 1, Len(@) - 1)]
       IN IF aborted(s1, ev) THEN trigger_gets_newest_first(s1)
          ELSE trigger_gets_newest_first(
                 [trigger_value(s1, ev, Head(s1.values_))
                    EXCEPT !.values_ = Tail(@)])
  ELSE s

\* store::trigger_gets
RECURSIVE trigger_gets(_)
trigger_gets(s) ==
  IF s.values_ # <<>> /\ s.gets_ # <<>>
  THEN LET ev == Head(s.gets_)
           s1 == [s EXCEPT !.gets_ = Tail(@)]
       IN IF aborted(s1, ev) THEN trigger_gets(s1)
          ELSE trigger_gets([trigger_value(s1, ev, Head(s1.values_))
                               EXCEPT !.values_ = Tail(@)])
  ELSE s

\* A trigger_puts that does not look at the capacity.
RECURSIVE trigger_puts_unbounded(_)
trigger_puts_unbounded(s) ==
  IF s.puts_ # <<>>
  THEN LET ev == Head(s.puts_).ev
           s1 == [s EXCEPT !.puts_ = Tail(@)]
       IN IF aborted(s1, ev) THEN trigger_puts_unbounded(s1)
          ELSE trigger_puts_unbounded(
                 trigger([s1 EXCEPT !.values_ = Append(@, Head(s.puts_).value)],
                         ev))
  ELSE s

\* store::trigger_puts
RECURSIVE trigger_puts(_)
trigger_puts(s) ==
  IF Len(s.values_) < s.capacity_ /\ s.puts_ # <<>>
  THEN LET ev == Head(s.puts_).ev
           s1 == [s EXCEPT !.puts_ = Tail(@)]
       IN IF aborted(s1, ev) THEN trigger_puts(s1)
          ELSE trigger_puts(
                 trigger([s1 EXCEPT !.values_ = Append(@, Head(s.puts_).value)],
                         ev))
  ELSE s

\* store::get by coroutine who (0: the main program): the new value event is
\* Len(evs) of the result.
get(s, who) ==
  LET s1 == new_value_event(s)
      ev == Len(s1.evs)
      s2 == add_callback(Note(s1, "get", who, ev), ev,
                         [kind |-> "trigger_puts", aux |-> 0, arg |-> 0])
  IN trigger_gets([s2 EXCEPT !.gets_ = Append(@, ev)])

\* store::put(value) by coroutine who (0: the main program): the new event
\* is Len(evs) of the result.  The history notes a put that returns Pending.
put(s, who, val) ==
  LET s1 == new_event(s)
      ev == Len(s1.evs)
      s2 == [s1 EXCEPT !.evlog[ev] =
                         Append(@, [k |-> "put", who |-> who, t |-> s.now_,
                                    v |-> val])]
      s3 == add_callback(s2, ev,
                         [kind |-> "trigger_gets", aux |-> 0, arg |-> 0])
      s4 == trigger_puts([s3 EXCEPT !.puts_ = Append(@, [ev |-> ev,
                                                         value |-> val])])
  IN IF pending(s4, ev) THEN Note(s4, "queued", who, ev) ELSE s4

\* ------------------------------------------------------------ coroutines
\* process::promise_type::is_aborted
is_aborted(s, p) == aborted(s, s.procs[p].ev_)

\* An await_suspend without the check for an Aborted event.
await_suspend_unguarded(s, p, e) ==
  Note([s EXCEPT !.evs[e].promises_ = Append(@, p),
                 !.procs[p].status = "suspended"],
       "suspend", p, e)

\* event::await_suspend
await_suspend(s, p, e) ==
  IF aborted(s, e) THEN destroy(s, p, e)
  ELSE Note([s EXCEPT !.evs[e].promises_ = Append(@, p),
                      !.procs[p].status = "suspended"],
            "suspend", p, e)

RECURSIVE run_body(_, _)
RECURSIVE any_of(_, _)
RECURSIVE spawn_value(_, _)

\* A co_await that suspends whatever await_ready says.
co_await_always_suspends(s, p, e) == await_suspend(s, p, e)

\* await_resume: event::await_resume returns nothing,
\* value_event::await_resume returns value().
await_resume(s, e) == IF s.evs[e].typed THEN deref(s, e) ELSE s

\* co_await ev: await_ready, then await_suspend or go on.
co_await(s, p, e) ==
  IF processed(s, e) THEN run_body(await_resume(s, e), p)
  ELSE await_suspend(s, p, e)

\* A return_value that triggers the process as return_void does, without
\* the value.
return_value_drops_value(s, p, v) ==
  LET ev == s.procs[p].ev_
      s1 == [s EXCEPT !.evlog[ev] =
                        Append(@, [k |-> "return", who |-> p, t |-> s.now_,
                                   v |-> v])]
      s2 == trigger(s1, ev)
  IN [s2 EXCEPT !.procs[p].status = "done", !.handles_ = @ \ {p}]

\* value_process::promise_type::return_value for co_return v, then
\* final_suspend = suspend_never frees the frame.
return_value(s, p, v) ==
  LET ev == s.procs[p].ev_
      s1 == [s EXCEPT !.evlog[ev] =
                        Append(@, [k |-> "return", who |-> p, t |-> s.now_,
                                   v |-> v])]
      s2 == trigger_value(s1, ev, v)
  IN [s2 EXCEPT !.procs[p].status = "done", !.handles_ = @ \ {p}]

\* ------------------------------------------------------------ resource
\* A trigger_requests that grants aborted requests too.
RECURSIVE trigger_requests_grants_aborted(_)
trigger_requests_grants_aborted(s) ==
  IF s.available_ > 0 /\ Len(s.requests_) > 0
  THEN LET ev == Head(s.requests_)
           s1 == [s EXCEPT !.requests_ = Tail(@)]
       IN trigger_requests_grants_aborted(
            [trigger(s1, ev) EXCEPT !.available_ = @ - 1])
  ELSE s

\* A trigger_requests that takes the newest request first.
RECURSIVE trigger_requests_newest_first(_)
trigger_requests_newest_first(s) ==
  IF s.available_ > 0 /\ Len(s.requests_) > 0
  THEN LET ev == s.requests_[Len(s.requests_)]
           s1 == [s EXCEPT !.requests_ = SubSeq(@, 1, Len(@) - 1)]
       IN IF aborted(s1, ev) THEN trigger_requests_newest_first(s1)
          ELSE trigger_requests_newest_first(
                 [trigger(s1, ev) EXCEPT !.available_ = @ - 1])
  ELSE s

\* resource::trigger_requests
RECURSIVE trigger_requests(_)
trigger_requests(s) ==
  IF s.available_ > 0 /\ Len(s.requests_) > 0
  THEN LET ev == Head(s.requests_)
           s1 == [s EXCEPT !.requests_ = Tail(@)]
       IN IF aborted(s1, ev) THEN trigger_requests(s1)
          ELSE trigger_requests([trigger(s1, ev) EXCEPT !.available_ = @ - 1])
  ELSE s

\* resource::request by coroutine who (0: the main program): the new event
\* is Len(evs) of the result.
request(s, who) ==
  LET s1 == new_event(s)
      ev == Len(s1.evs)
  IN trigger_requests([Note(s1, "request", who, ev)
                         EXCEPT !.requests_ = Append(@, ev)])

\* A release that returns two instances.
release_two(s) == trigger_requests([s EXCEPT !.available_ = @ + 2])

\* The event request() returned to coroutine p (its local `request`).
request_of(s, p) ==
  CHOOSE e \in 1..Len(s.evs) :
    \E i \in 1..Len(s.evlog[e]) :
      s.evlog[e][i].k = "request" /\ s.evlog[e][i].who = p

\* resource::release
release(s) == trigger_requests([s EXCEPT !.available_ = @ + 1])

\* An unhandled_exception that ends the coroutine as a return does.
unhandled_exception_returns(s, p) ==
  LET s1 == trigger(Note(s, "throw", p, s.procs[p].ev_), s.procs[p].ev_)
  IN [s1 EXCEPT !.procs[p].status = "failed", !.handles_ = @ \ {p}]

\* generic_promise_type::unhandled_exception for an exception that leaves
\* the body: assert(false) ends the program in a build with assertions; in
\* a build with NDEBUG it returns, return_void is not called, and
\* final_suspend = suspend_never frees the frame.
unhandled_exception(s, p) ==
  IF ~s.ndebug
  THEN [s EXCEPT !.crashed = TRUE]
  ELSE [Note(s, "throw", p, s.procs[p].ev_)
          EXCEPT !.procs[p].status = "failed", !.handles_ = @ \ {p}]

\* printf("[%.0f] %s\n", sim.now(), name) of the clocks,
\* usage_times.push_back(sim.now()) of the resource users
print(s, p) == [s EXCEPT !.printed = Append(@, [who |-> p, t |-> s.now_])]

\* The coroutine body from its current position to its next suspension, its
\* return (return_void, then final_suspend = suspend_never frees the frame)
\* or its destruction.  A statement is [op, arg].
run_body(s, p) ==
  LET f == s.procs[p] IN
  IF s.crashed THEN s
  ELSE IF f.pc > Len(f.body)
  THEN LET s1 == trigger(Note(s, "return", p, f.ev_), f.ev_)
       IN [s1 EXCEPT !.procs[p].status = "done", !.handles_ = @ \ {p}]
  ELSE LET st == f.body[f.pc]
           s0 == [s EXCEPT !.procs[p].pc = @ + 1]
       IN CASE st.op = "return" -> return_value(s0, p, st.arg)
            [] st.op = "trigger" -> run_body(trigger(s0, st.arg), p)
            [] st.op = "add_callback" ->
                 run_body(add_callback(Note(s0, "try_add",
                                            p + 2 * MaxCallbackAdds, st.arg),
                                       st.arg,
                                       [kind |-> "log", aux |-> 0,
                                        arg |-> p + 2 * MaxCallbackAdds]), p)
            [] st.op = "abort"   -> run_body(abort(s0, st.arg), p)
            [] st.op = "throw"   -> unhandled_exception(s0, p)
            [] st.op = "request" ->
                 LET s1 == request(s0, p) IN co_await(s1, p, Len(s1.evs))
            [] st.op = "release" -> run_body(release(s0), p)
            [] st.op = "get" ->
                 LET s1 == get(s0, p) IN co_await(s1, p, Len(s1.evs))
            [] st.op = "request | timeout" ->
                 \* auto request = res.request();
                 \* auto timeout = sim.timeout(d);
                 \* co_await (request | timeout);
                 LET s1 == request(s0, p)
                     s2 == timeout(s1, st.arg)
                     s3 == any_of(s2, <<Len(s1.evs), Len(s2.evs)>>)
                 IN co_await(s3, p, Len(s3.evs))
            [] st.op = "else abort" ->
                 \* if (request.triggered()) { ... } else request.abort();
                 IF triggered(s0, request_of(s0, p))
                 THEN run_body(s0, p)
                 ELSE run_body(
                        [abort(s0, request_of(s0, p))
                           EXCEPT !.procs[p].pc = Len(f.body) + 1], p)
            [] st.op = "print"   -> run_body(print(s0, p), p)
            [] st.op = "loop"    ->
                 run_body([s0 EXCEPT !.procs[p].pc = 1], p)
            [] st.op = "await"   -> co_await(s0, p, st.arg)
            [] st.op = "timeout" ->
                 LET s1 == timeout(s0, st.arg) IN co_await(s1, p, Len(s1.evs))
            [] st.op = "timeout_value" ->
                 \* co_await sim.timeout<Value>(delay, value);
                 LET s1 == timeout_value(s0, st.arg[1], st.arg[2])
                 IN co_await(s1, p, Len(s1.evs))
            [] st.op = "await producer" ->
                 \* auto val = co_await producer(sim);
                 LET s1 == spawn_value(s0, st.arg)
                 IN co_await(s1, p, s1.procs[Len(s0.procs) + 1].ev_)

\* coroutine_handle::resume
resume(s, p, e) ==
  LET s1 == Note([s EXCEPT !.procs[p].status = "running"], "resume", p, e)
  IN run_body(Observe(await_resume(s1, e)), p)

\* A coroutine function that does not await its initial_suspend event: the
\* body runs inside the call.
spawn_eager(s, body) ==
  LET p  == Len(s.procs) + 1
      s1 == [s EXCEPT !.handles_ = @ \cup {p}]
      s2 == new_event(s1)
      s3 == [s2 EXCEPT !.procs = Append(@, [body |-> body, pc |-> 1,
                                            status |-> "running",
                                            ev_ |-> Len(s2.evs),
                                            start |-> Len(s2.evs) + 1])]
  IN run_body(timeout(s3, 0), p)

\* Calling a coroutine function: the promise is constructed
\* (generic_promise_type inserts the handle, proc_{sim} creates the completion
\* event), then the coroutine awaits initial_suspend() = sim_.timeout(0).
spawn(s, body) ==
  LET p  == Len(s.procs) + 1
      s1 == [s EXCEPT !.handles_ = @ \cup {p}]
      s2 == new_event(s1)
      s3 == [s2 EXCEPT !.procs = Append(@, [body |-> body, pc |-> 1,
                                            status |-> "running",
                                            ev_ |-> Len(s2.evs),
                                            start |-> Len(s2.evs) + 1])]
      s4 == timeout(s3, 0)
  IN co_await(s4, p, Len(s4.evs))

\* Calling a value-returning coroutine function: as spawn, with
\* proc_{sim} a value_process, whose event_ is a value event.
spawn_value(s, body) ==
  LET p  == Len(s.procs) + 1
      s1 == [s EXCEPT !.handles_ = @ \cup {p}]
      s2 == new_value_event(s1)
      s3 == [s2 EXCEPT !.procs = Append(@, [body |-> body, pc |-> 1,
                                            status |-> "running",
                                            ev_ |-> Len(s2.evs),
                                            start |-> Len(s2.evs) + 1])]
      s4 == timeout(s3, 0)
  IN co_await(s4, p, Len(s4.evs))

\* ------------------------------------------------------------ processing
\* event::process, first loop: resume or destroy the awaiting coroutines.
RECURSIVE notify_promises(_, _, _, _)
\* A first loop that resumes every awaiting coroutine.
notify_promises_resume_all(s, e, temp_promises, i) ==
  IF i > Len(temp_promises) THEN s
  ELSE notify_promises(resume(s, temp_promises[i], e), e, temp_promises, i + 1)

notify_promises(s, e, temp_promises, i) ==
  IF i > Len(temp_promises) \/ s.crashed THEN s
  ELSE LET p == temp_promises[i]
           s1 == IF is_aborted(s, p) THEN destroy(s, p, e) ELSE resume(s, p, e)
       IN notify_promises(s1, e, temp_promises, i + 1)

\* cb(*this)
RECURSIVE run_until(_, _)
call_cb(s, e, cb) ==
  LET s1 == Observe(Note(s, "cb", cb.arg, e))
  IN CASE cb.kind = "log" -> s1
       [] cb.kind = "add" ->
            add_callback(Note(s1, "try_add", cb.arg + MaxCallbackAdds, cb.aux),
                         cb.aux, [kind |-> "log", aux |-> 0,
                                  arg |-> cb.arg + MaxCallbackAdds])
       [] cb.kind = "trigger" -> trigger(s1, cb.arg)
       [] cb.kind = "run_until" -> run_until(s1, cb.aux)
       [] cb.kind = "trigger_puts" -> trigger_puts(s1)
       [] cb.kind = "trigger_gets" -> trigger_gets(s1)
       [] cb.kind = "count" ->
            LET s2 == [s1 EXCEPT !.n_ptrs[cb.aux] = @ - 1]
            IN IF s2.n_ptrs[cb.aux] = 0 THEN trigger(s2, cb.arg) ELSE s2
       [] cb.kind = "trigger_value" ->
            trigger_value(deref(s1, cb.aux), cb.arg, value(s1, cb.aux))

\* event::process, second loop: for (auto &cb : data_->cbs_) cb(*this)
RECURSIVE call_cbs(_, _, _)
call_cbs(s, e, i) ==
  IF i > Len(s.evs[e].cbs_) \/ s.crashed THEN s
  ELSE call_cbs(call_cb(s, e, s.evs[e].cbs_[i]), e, i + 1)

\* A process without the check of the state.
process_unguarded(s, e) ==
  LET temp_promises == s.evs[e].promises_
      s1 == set_state(Note(s, "processed", 0, e), e, "processed")
      s2 == [s1 EXCEPT !.evs[e].promises_ = <<>>]
      s3 == notify_promises(s2, e, temp_promises, 1)
      s4 == call_cbs(s3, e, 1)
  IN [s4 EXCEPT !.evs[e].cbs_ = <<>>]

\* A process that calls the callbacks before it resumes the coroutines.
process_callbacks_first(s, e) ==
  IF processed(s, e) \/ aborted(s, e) THEN s
  ELSE LET temp_promises == s.evs[e].promises_
           s1 == set_state(Note(s, "processed", 0, e), e, "processed")
           s2 == [s1 EXCEPT !.evs[e].promises_ = <<>>]
           s3 == call_cbs(s2, e, 1)
           s4 == notify_promises(s3, e, temp_promises, 1)
       IN [s4 EXCEPT !.evs[e].cbs_ = <<>>]

\* event::process
process(s, e) ==
  IF processed(s, e) \/ aborted(s, e) THEN s
  ELSE LET temp_promises == s.evs[e].promises_
           s1 == set_state(Note(s, "processed", 0, e), e, "processed")
           s2 == [s1 EXCEPT !.evs[e].promises_ = <<>>]
           s3 == notify_promises(s2, e, temp_promises, 1)
           s4 == call_cbs(s3, e, 1)
       IN [s4 EXCEPT !.evs[e].cbs_ = <<>>]

\* ------------------------------------------------------------ combinators
\* An any_of or all_of call was made: its output, its inputs, the now() of
\* the call and the inputs that were Processed then.
Made(s, kind, out, ins) ==
  [s EXCEPT !.made = Append(@, [kind |-> kind, out |-> out, ins |-> ins,
                                t |-> s.now_,
                                done |-> {i \in 1..Len(ins) :
                                           processed(s, ins[i])}])]

\* An any_of_internal that triggers the output whatever the input's state.
any_of_internal_triggers_now(s, any_of_ev, current_ev) ==
  trigger(s, any_of_ev)

\* An any_of_internal that registers its callback on Processed inputs too.
any_of_internal_no_check(s, any_of_ev, current_ev) ==
  add_callback(s, current_ev,
               [kind |-> "trigger", arg |-> any_of_ev, aux |-> 0])

\* simulation::any_of_internal(any_of_ev, current_ev)
any_of_internal(s, any_of_ev, current_ev) ==
  IF processed(s, current_ev) THEN trigger(s, any_of_ev)
  ELSE add_callback(s, current_ev,
                    [kind |-> "trigger", arg |-> any_of_ev, aux |-> 0])

\* simulation::any_of_internal(any_of_ev, current_ev, next_evs...)
RECURSIVE any_of_internals(_, _, _, _)
any_of_internals(s, any_of_ev, evs_, i) ==
  IF i > Len(evs_) THEN s
  ELSE any_of_internals(any_of_internal(s, any_of_ev, evs_[i]),
                        any_of_ev, evs_, i + 1)

\* simulation::any_of(evs...), one input at least; the output is Len(evs) of
\* the result.
any_of(s, evs_) ==
  LET s1 == new_event(s)
      any_of_ev == Len(s1.evs)
      s2 == any_of_internals(s1, any_of_ev, evs_, 1)
  IN Made(s2, "any_of", any_of_ev, evs_)

\* simulation::any_of(std::vector<event_type> evs) of the header that takes
\* the inputs as a list; the output is Len(evs) of the result.
RECURSIVE any_of_vector_callbacks(_, _, _, _)
any_of_vector_callbacks(s, any_of_ev, evs_, i) ==
  IF i > Len(evs_) THEN s
  ELSE any_of_vector_callbacks(
         add_callback(s, evs_[i],
                      [kind |-> "trigger", arg |-> any_of_ev, aux |-> 0]),
         any_of_ev, evs_, i + 1)

any_of_vector(s, evs_) ==
  IF Len(evs_) = 0 THEN timeout(s, 0)
  ELSE IF \E i \in 1..Len(evs_) : processed(s, evs_[i]) THEN timeout(s, 0)
  ELSE LET s1 == new_event(s)
       IN any_of_vector_callbacks(s1, Len(s1.evs), evs_, 1)

\* simulation::any_of_internal(any_of_ev, current_ev) for value events
any_of_value_internal(s, any_of_ev, current_ev) ==
  IF processed(s, current_ev)
  THEN trigger_value(deref(s, current_ev), any_of_ev, value(s, current_ev))
  ELSE add_callback(s, current_ev,
                    [kind |-> "trigger_value", arg |-> any_of_ev,
                     aux |-> current_ev])

RECURSIVE any_of_value_internals(_, _, _, _)
any_of_value_internals(s, any_of_ev, evs_, i) ==
  IF i > Len(evs_) \/ s.crashed THEN s
  ELSE any_of_value_internals(any_of_value_internal(s, any_of_ev, evs_[i]),
                              any_of_ev, evs_, i + 1)

\* simulation::any_of<Value>(evs...), one input at least
any_of_value(s, evs_) ==
  LET s1 == new_value_event(s)
      any_of_ev == Len(s1.evs)
      s2 == any_of_value_internals(s1, any_of_ev, evs_, 1)
  IN Made(s2, "any_of_value", any_of_ev, evs_)

\* An all_of_internal that counts the Processed inputs too.
all_of_internal_counts_all(s, all_of_ev, n_ptr, current_ev) ==
  add_callback([s EXCEPT !.n_ptrs[n_ptr] = @ + 1], current_ev,
               [kind |-> "count", arg |-> all_of_ev, aux |-> n_ptr])

\* simulation::all_of_internal(all_of_ev, n_ptr, current_ev)
all_of_internal(s, all_of_ev, n_ptr, current_ev) ==
  IF ~processed(s, current_ev)
  THEN add_callback([s EXCEPT !.n_ptrs[n_ptr] = @ + 1], current_ev,
                    [kind |-> "count", arg |-> all_of_ev, aux |-> n_ptr])
  ELSE s

\* simulation::all_of_internal(all_of_ev, n_ptr, current_ev, next_evs...)
RECURSIVE all_of_internals(_, _, _, _, _)
all_of_internals(s, all_of_ev, n_ptr, evs_, i) ==
  IF i > Len(evs_) THEN s
  ELSE all_of_internals(all_of_internal(s, all_of_ev, n_ptr, evs_[i]),
                        all_of_ev, n_ptr, evs_, i + 1)

\* simulation::all_of(evs...), one input at least: n_ptr is a new counter, 0.
all_of(s, evs_) ==
  LET s1 == new_event([s EXCEPT !.n_ptrs = Append(@, 0)])
      all_of_ev == Len(s1.evs)
      s2 == all_of_internals(s1, all_of_ev, Len(s1.n_ptrs), evs_, 1)
  IN Made(s2, "all_of", all_of_ev, evs_)

\* simulation::all_of(std::vector<event_type> evs) of the header that takes
\* the inputs as a list: n counts the inputs not yet Processed.
RECURSIVE all_of_vector_callbacks(_, _, _, _, _)
all_of_vector_callbacks(s, all_of_ev, n_ptr, evs_, i) ==
  IF i > Len(evs_) THEN s
  ELSE all_of_vector_callbacks(
         add_callback(s, evs_[i],
                      [kind |-> "count", arg |-> all_of_ev, aux |-> n_ptr]),
         all_of_ev, n_ptr, evs_, i + 1)

all_of_vector(s, evs_) ==
  LET n == Cardinality({i \in 1..Len(evs_) : ~processed(s, evs_[i])})
  IN IF n = 0 THEN timeout(s, 0)
     ELSE LET s1 == new_event([s EXCEPT !.n_ptrs = Append(@, n)])
          IN all_of_vector_callbacks(s1, Len(s1.evs), Len(s1.n_ptrs), evs_, 1)

\* simulation::step.  There is no check for an empty heap: top() and pop()
\* of an empty std::priority_queue are undefined, the program ends on the
\* read or goes on with the time the memory holds and no event to process.
step(s) ==
  IF empty(s)
  THEN IF s.null_read = "crash"
       THEN [s EXCEPT !.crashed = TRUE]
       ELSE [s EXCEPT !.now_ = s.garbage_time]
  ELSE LET sev == top(s.scheduled_evs_)
           s1 == [s EXCEPT !.scheduled_evs_ = @ \ {sev}, !.now_ = sev.time_,
                           !.popped = Append(@, sev)]
       IN process(s1, sev.ev_)

\* simulation::run
\* A run() with `if` in place of `while`: it takes one entry only.
run_once(s) == IF empty(s) \/ s.crashed THEN s ELSE step(s)

RECURSIVE run(_)
run(s) == IF empty(s) \/ s.crashed THEN s ELSE run(step(s))

\* simulation::run_until: assert(target >= now()) ends the program in a
\* build with assertions and is no code at all in a build with NDEBUG.
RECURSIVE run_until_loop(_, _)
\* while (!empty() && scheduled_evs_.top().time_ < target) step();
\* now_ = target;
run_until_loop(s, target) ==
  IF s.crashed THEN s
  ELSE IF ~empty(s) /\ top(s.scheduled_evs_).time_ < target
  THEN run_until_loop(step(s), target)
  ELSE [s EXCEPT !.now_ = target]

\* A run_until that also processes the entries at the target time.
run_until_inclusive(s, target) ==
  IF s.crashed THEN s
  ELSE IF ~empty(s) /\ top(s.scheduled_evs_).time_ <= target
  THEN run_until_loop(step(s), target)
  ELSE [s EXCEPT !.now_ = target]

run_until(s, target) ==
  IF target < s.now_ /\ ~s.ndebug
  THEN [s EXCEPT !.crashed = TRUE]
  ELSE run_until_loop(s, target)

\* handle.destroy() on a handle of the registry: the frame of a suspended
\* coroutine is freed; a frame that was freed before is freed twice, which
\* is undefined.
destroy_handle(s, p) ==
  IF s.procs[p].status = "suspended"
  THEN [s EXCEPT !.procs[p].status = "destroyed", !.handles_ = @ \ {p}]
  ELSE [s EXCEPT !.procs[p].status = "destroyed twice",
                 !.crashed = (s.null_read = "crash")]

\* simulation::~simulation: handles_ is swapped into temp_handles and every
\* handle of it is destroyed (in the order of the std::set).
RECURSIVE destroy_handles(_, _)
destroy_handles(s, temp_handles) ==
  IF temp_handles = {} THEN s
  ELSE LET p == CHOOSE x \in temp_handles : \A y \in temp_handles : x <= y
       IN destroy_handles(destroy_handle(s, p), temp_handles \ {p})

simulation_destructor(s) ==
  destroy_handles([s EXCEPT !.handles_ = {}], s.handles_)

\* ------------------------------------------------------------ inputs
\* The completion events of the processes the main program holds.  A process
\* can be awaited, aborted and given callbacks; its trigger() is protected.
Procs == {procs[p].ev_ : p \in 1..Len(procs)}

\* The outputs of the any_of and all_of calls the main program made.  The
\* main program and the coroutines observe them: they await them and add
\* callbacks to them.
Outs == {made[i].out : i \in 1..Len(made)}

\* Statements of coroutine bodies, over the events and processes the main
\* program holds when it calls the coroutine function: co_await x, x.abort(),
\* ev.trigger(), co_await sim.timeout(d).
Stmts ==
  [op : {"await", "abort"}, arg : held \cup Procs]
    \cup [op : {"await"}, arg : Outs]
    \cup [op : {"trigger"}, arg : held]
    \cup [op : {"timeout"}, arg : BodyDelays]

\* The payloads the main program gives to value events (std::string), and
\* the payload of ev.trigger() without arguments: std::string().
Values == {"a", "b"}
default_value == ""

\* The payload of the value timeout a producer waits for.
TickValues == {"x"}

\* Bodies of the value-returning coroutine functions: co_return v, with
\* co_await sim.timeout<Value>(d, x) before it or not.
ProducerBodies ==
  {<<[op |-> "return", arg |-> v]>> : v \in Values}
    \cup {<<[op |-> "timeout_value", arg |-> <<d, x>>],
             [op |-> "return", arg |-> v]>> :
            d \in BodyDelays, x \in TickValues, v \in Values}

\* Body of the coroutine function consumer(sim): it calls a value-returning
\* coroutine function, awaits the result and prints.
consumer(body) ==
  <<[op |-> "await producer", arg |-> body], [op |-> "print", arg |-> 0]>>

\* The argument lists of any_of and all_of calls.
InputLists == {<<a>> : a \in held} \cup {<<a, b>> : a, b \in held}

\* Bodies of the coroutine functions the main program may call.
Bodies ==
  {<<>>} \cup {<<a>> : a \in Stmts}

\* ------------------------------------------------------------ actions
\* A new simulation; held are the events the main program created itself.
Start(program) ==
  /\ now_ = 0
  /\ scheduled_evs_ = {}
  /\ next_id_ = 0
  /\ handles_ = {}
  /\ evs = <<>>
  /\ procs = <<>>
  /\ evlog = <<>>
  /\ seen = <<>>
  /\ popped = <<>>
  /\ hist = <<>>
  /\ n_ptrs = <<>>
  /\ requests_ = <<>>
  /\ values_ = <<>>
  /\ gets_ = <<>>
  /\ puts_ = <<>>
  /\ printed = <<>>
  /\ crashed = FALSE
  /\ made = <<>>
  /\ held = {}
  /\ budget = program

\* The program has no store.
NoStore == capacity_ = 0

\* The build keeps the assertions (NDEBUG is not defined); the time an
\* undefined read of the heap yields is never used by a program that keeps
\* to the preconditions.
Checked == ndebug = FALSE /\ garbage_time = 0

Init == Start(KernelProgram) /\ NoStore /\ Checked /\ available_ = 0
  /\ null_read = "crash"

InitActors == Start(ActorProgram) /\ NoStore /\ Checked /\ available_ = 0
  /\ null_read = "crash"

\* A public call takes the state St to s.
Commit(s) ==
  /\ ~crashed
  /\ now_' = s.now_
  /\ scheduled_evs_' = s.scheduled_evs_
  /\ next_id_' = s.next_id_
  /\ handles_' = s.handles_
  /\ evs' = s.evs
  /\ procs' = s.procs
  /\ evlog' = s.evlog
  /\ seen' = s.seen
  /\ popped' = s.popped
  /\ hist' = s.hist
  /\ n_ptrs' = s.n_ptrs
  /\ crashed' = s.crashed
  /\ made' = s.made
  /\ available_' = s.available_
  /\ requests_' = s.requests_
  /\ values_' = s.values_
  /\ gets_' = s.gets_
  /\ puts_' = s.puts_
  /\ printed' = s.printed
  /\ UNCHANGED <<null_read, garbage_time, ndebug, capacity_>>

\* ev = sim.event()
NewEvent ==
  /\ budget.events > 0
  /\ Commit(new_event(St))
  /\ held' = held \cup {Len(evs) + 1}
  /\ budget' = [budget EXCEPT !.events = @ - 1]

\* ev = sim.timeout(d)
Timeout ==
  /\ budget.events > 0
  /\ \E d \in Delays : Commit(timeout(St, d))
  /\ held' = held \cup {Len(evs) + 1}
  /\ budget' = [budget EXCEPT !.events = @ - 1]

\* sim.schedule(ev, d)
Schedule ==
  /\ budget.sched > 0
  /\ \E e \in held, d \in Delays : Commit(schedule(St, e, d))
  /\ budget' = [budget EXCEPT !.sched = @ - 1]
  /\ UNCHANGED held

\* ev.trigger()
Trigger ==
  /\ \E e \in held : Commit(trigger(St, e))
  /\ UNCHANGED <<held, budget>>

\* ev.abort(), proc.abort()
Abort ==
  /\ \E e \in held \cup Procs : Commit(abort(St, e))
  /\ UNCHANGED <<held, budget>>

\* ev.add_callback(cb), cb a callback that records its call
AddCallback ==
  /\ budget.cbs > 0
  /\ \E e \in held \cup Outs :
       Commit(add_callback(St, e, [kind |-> "log", arg |-> budget.cbs,
                                   aux |-> 0]))
  /\ budget' = [budget EXCEPT !.cbs = @ - 1]
  /\ UNCHANGED held

\* proc = f(sim, ...): calling a coroutine function whose body is any of
\* Bodies; the main program holds the returned process (its event).
Spawn ==
  /\ budget.procs > 0
  /\ \E body \in Bodies : Commit(spawn(St, body))
  /\ budget' = [budget EXCEPT !.procs = @ - 1]
  /\ UNCHANGED held

\* awaiter(sim, ev): calling a coroutine function whose body is co_await ev,
\* ev the output of an any_of or all_of call.
SpawnAwaiter ==
  /\ budget.awaiters > 0
  /\ \E e \in Outs : Commit(spawn(St, <<[op |-> "await", arg |-> e]>>))
  /\ budget' = [budget EXCEPT !.awaiters = @ - 1]
  /\ UNCHANGED held

\* ev = sim.any_of(evs...)
AnyOf ==
  /\ budget.any_of > 0
  /\ \E evs_ \in InputLists : Commit(any_of(St, evs_))
  /\ budget' = [budget EXCEPT !.any_of = @ - 1]
  /\ UNCHANGED held

\* ev = sim.all_of(evs...)
AllOf ==
  /\ budget.all_of > 0
  /\ \E evs_ \in InputLists : Commit(all_of(St, evs_))
  /\ budget' = [budget EXCEPT !.all_of = @ - 1]
  /\ UNCHANGED held

\* sim.step()
Step ==
  /\ ~empty(St)
  /\ Commit(step(St))
  /\ UNCHANGED <<held, budget>>

\* sim.run()
Run ==
  /\ Commit(run(St))
  /\ UNCHANGED <<held, budget>>

\* sim.run_until(target)
RunUntil ==
  /\ \E d \in Delays :
       /\ now_ + d <= MaxTime
       /\ Commit(run_until(St, now_ + d))
  /\ UNCHANGED <<held, budget>>

\* The main program uses the kernel without coroutines.
Next ==
  \/ NewEvent
  \/ Timeout
  \/ Schedule
  \/ Trigger
  \/ Abort
  \/ AddCallback
  \/ Step
  \/ Run
  \/ RunUntil

Spec == Init /\ [][Next]_vars

\* The main program calls coroutine functions.
NextActors ==
  \/ NewEvent
  \/ Timeout
  \/ Trigger
  \/ Abort
  \/ AddCallback
  \/ Spawn
  \/ Step
  \/ Run

SpecActors == InitActors /\ [][NextActors]_vars

\* The main program calls any_of.
InitAnyOf == Start(AnyOfProgram) /\ NoStore /\ Checked /\ available_ = 0
  /\ null_read = "crash"

NextAnyOf ==
  \/ NewEvent
  \/ Timeout
  \/ Trigger
  \/ Abort
  \/ AddCallback
  \/ SpawnAwaiter
  \/ AnyOf
  \/ Step
  \/ Run

SpecAnyOf == InitAnyOf /\ [][NextAnyOf]_vars

\* out.abort(), out the event an any_of call returned to the main program
AbortOutput ==
  /\ \E e \in Outs : Commit(abort(St, e))
  /\ UNCHANGED <<held, budget>>

\* out.trigger(), out the Pending event an any_of call returned to the main
\* program; the history log notes the call.
TriggerOutput ==
  /\ \E e \in Outs :
       /\ pending(St, e)
       /\ Commit(trigger(Note(St, "trigger", 0, e), e))
  /\ UNCHANGED <<held, budget>>

\* The main program calls any_of and triggers or aborts the output itself.
NextAnyOfOutput ==
  \/ NewEvent
  \/ Timeout
  \/ Trigger
  \/ Abort
  \/ SpawnAwaiter
  \/ AnyOf
  \/ AbortOutput
  \/ TriggerOutput
  \/ Step
  \/ Run

InitAnyOfOutput ==
  /\ Start([AnyOfProgram EXCEPT !.cbs = 0])
  /\ NoStore /\ Checked /\ available_ = 0
  /\ null_read = "crash"

SpecAnyOfOutput == InitAnyOfOutput /\ [][NextAnyOfOutput]_vars

\* ev = sim.event<std::string>()
NewValueEvent ==
  /\ budget.events > 0
  /\ Commit(new_value_event(St))
  /\ held' = held \cup {Len(evs) + 1}
  /\ budget' = [budget EXCEPT !.events = @ - 1]

\* ev = sim.timeout<std::string>(d, v)
TimeoutValue ==
  /\ budget.events > 0
  /\ \E d \in Delays, v \in Values : Commit(timeout_value(St, d, v))
  /\ held' = held \cup {Len(evs) + 1}
  /\ budget' = [budget EXCEPT !.events = @ - 1]

\* ev.trigger(v), ev.trigger()
TriggerValue ==
  /\ \E e \in held, v \in Values \cup {default_value} :
       Commit(trigger_value(St, e, v))
  /\ UNCHANGED <<held, budget>>

\* sim.schedule(ev), ev a value event: the delay is Time{0} by default.
ScheduleValue ==
  /\ budget.sched > 0
  /\ \E e \in held : Commit(schedule(St, e, 0))
  /\ budget' = [budget EXCEPT !.sched = @ - 1]
  /\ UNCHANGED held

\* ev = sim.any_of<std::string>(evs...)
AnyOfValue ==
  /\ budget.any_of > 0
  /\ \E evs_ \in InputLists : Commit(any_of_value(St, evs_))
  /\ budget' = [budget EXCEPT !.any_of = @ - 1]
  /\ UNCHANGED held

\* value_awaiter(sim, ev): calling a coroutine function whose body is
\* Value value = co_await ev, ev a value event.
SpawnValueAwaiter ==
  /\ budget.awaiters > 0
  /\ \E e \in held :
       Commit(spawn(St, <<[op |-> "await", arg |-> e]>>))
  /\ budget' = [budget EXCEPT !.awaiters = @ - 1]
  /\ UNCHANGED held

\* The main program uses value events.  A read through an empty payload
\* slot ends the program or goes on with garbage.
InitValues == Start(ValueProgram) /\ NoStore /\ Checked /\ available_ = 0
  /\ null_read \in {"crash", "continue"}

NextValues ==
  \/ NewValueEvent
  \/ TimeoutValue
  \/ ScheduleValue
  \/ TriggerValue
  \/ Abort
  \/ SpawnValueAwaiter
  \/ Step
  \/ Run

SpecValues == InitValues /\ [][NextValues]_vars

\* The main program calls the typed any_of on value events it creates and
\* triggers; it never calls schedule.
InitTypedAnyOf == Start(TypedAnyOfProgram) /\ NoStore /\ Checked /\ available_ = 0
  /\ null_read = "crash"

NextTypedAnyOf ==
  \/ NewValueEvent
  \/ TimeoutValue
  \/ TriggerValue
  \/ Abort
  \/ AnyOfValue
  \/ SpawnAwaiter
  \/ Step
  \/ Run

SpecTypedAnyOf == InitTypedAnyOf /\ [][NextTypedAnyOf]_vars

\* proc = producer(sim): the main program calls a value-returning
\* coroutine function and keeps the process.
SpawnProducer ==
  /\ budget.procs > 0
  /\ \E body \in ProducerBodies : Commit(spawn_value(St, body))
  /\ budget' = [budget EXCEPT !.procs = @ - 1]
  /\ held' = held \cup {Len(evs) + 1}

\* proc = consumer(sim): the main program calls the coroutine function whose
\* body calls producer(sim) itself, and keeps the process.
SpawnConsumer ==
  /\ budget.awaiters > 0
  /\ \E body \in ProducerBodies : Commit(spawn(St, consumer(body)))
  /\ budget' = [budget EXCEPT !.awaiters = @ - 1]
  /\ held' = held \cup {Len(evs) + 1}

\* proc.abort(), proc a process the main program holds.
AbortProcess ==
  /\ \E e \in held : Commit(abort(St, e))
  /\ UNCHANGED <<held, budget>>

\* The main program calls value-returning coroutine functions and
\* coroutine functions that await them.
InitValueActors == Start(ValueActorProgram) /\ NoStore /\ Checked /\ available_ = 0
  /\ null_read = "crash"

NextValueActors ==
  \/ SpawnProducer
  \/ SpawnConsumer
  \/ AbortProcess
  \/ Step
  \/ Run

SpecValueActors == InitValueActors /\ [][NextValueActors]_vars

\* ev.add_callback(cb), cb a callback that adds a recording callback to an
\* event the main program holds.
AddAdder ==
  /\ budget.cbs > 0
  /\ \E e \in held, target \in held :
       Commit(add_callback(St, e, [kind |-> "add", arg |-> budget.cbs,
                                   aux |-> target]))
  /\ budget' = [budget EXCEPT !.cbs = @ - 1]
  /\ UNCHANGED held

\* adder(sim, ev, target): calling a coroutine function whose body is
\* co_await ev; target.add_callback(cb).
SpawnAdder ==
  /\ budget.awaiters > 0
  /\ \E e \in held, target \in held :
       Commit(spawn(St, <<[op |-> "await", arg |-> e],
                          [op |-> "add_callback", arg |-> target]>>))
  /\ budget' = [budget EXCEPT !.awaiters = @ - 1]
  /\ UNCHANGED held

\* ev.add_callback(cb), cb a callback that calls sim.run_until(target)
AddRunUntilCallback ==
  /\ budget.nested > 0
  /\ \E e \in held, target \in 1..MaxTime :
       Commit(add_callback(St, e, [kind |-> "run_until",
                                   arg |-> MaxNestedCbs + budget.nested,
                                   aux |-> target]))
  /\ budget' = [budget EXCEPT !.nested = @ - 1]
  /\ UNCHANGED held

\* The main program creates events, calls a coroutine function, adds
\* recording callbacks and a callback that calls run_until(), and runs.
InitNested == Start(NestedProgram) /\ NoStore /\ Checked /\ available_ = 0
  /\ null_read = "crash"

NextNested ==
  \/ Timeout
  \/ Schedule
  \/ Trigger
  \/ Abort
  \/ AddCallback
  \/ AddRunUntilCallback
  \/ Spawn
  \/ Step
  \/ Run
  \/ RunUntil

SpecNested == InitNested /\ [][NextNested]_vars

\* The main program, its callbacks and its coroutines add callbacks.
InitCallbacks == Start(CallbackProgram) /\ NoStore /\ Checked /\ available_ = 0
  /\ null_read = "crash"

NextCallbacks ==
  \/ NewEvent
  \/ Timeout
  \/ Trigger
  \/ Abort
  \/ AddCallback
  \/ AddAdder
  \/ SpawnAdder
  \/ Step
  \/ Run

SpecCallbacks == InitCallbacks /\ [][NextCallbacks]_vars

\* The main program calls all_of.
\* ev = sim.timeout(d), d of either sign
TimeoutAny ==
  /\ budget.events > 0
  /\ \E d \in AnyDelays : Commit(timeout(St, d))
  /\ held' = held \cup {Len(evs) + 1}
  /\ budget' = [budget EXCEPT !.events = @ - 1]

\* sim.schedule(ev, d), d of either sign
ScheduleAny ==
  /\ budget.sched > 0
  /\ \E e \in held, d \in AnyDelays : Commit(schedule(St, e, d))
  /\ budget' = [budget EXCEPT !.sched = @ - 1]
  /\ UNCHANGED held

\* sim.step(), the heap empty or not
StepAny ==
  /\ Commit(step(St))
  /\ UNCHANGED <<held, budget>>

\* sim.run_until(target), target before or after now()
RunUntilAny ==
  /\ \E target \in 0..MaxTime : Commit(run_until(St, target))
  /\ UNCHANGED <<held, budget>>

\* The main program calls the kernel with arguments of either sign and
\* steps an empty heap, in a build with or without assertions.
InitUnchecked == Start(UncheckedProgram) /\ NoStore /\ available_ = 0
  /\ ndebug \in BOOLEAN
  /\ garbage_time \in GarbageTimes
  /\ null_read \in {"crash", "continue"}

NextUnchecked ==
  \/ NewEvent
  \/ TimeoutAny
  \/ ScheduleAny
  \/ Trigger
  \/ StepAny
  \/ RunUntilAny

SpecUnchecked == InitUnchecked /\ [][NextUnchecked]_vars

\* Bodies that throw at once or after a delay, and one that returns.
ThrowingBodies ==
  {<<[op |-> "throw", arg |-> 0]>>,
   <<[op |-> "timeout", arg |-> 1], [op |-> "throw", arg |-> 0]>>,
   <<[op |-> "timeout", arg |-> 1]>>}

\* proc = f(sim), the body of f throws or returns
SpawnThrower ==
  /\ budget.procs > 0
  /\ \E body \in ThrowingBodies : Commit(spawn(St, body))
  /\ budget' = [budget EXCEPT !.procs = @ - 1]
  /\ UNCHANGED held

\* watcher(sim, proc): a coroutine function whose body is co_await proc
SpawnWatcher ==
  /\ budget.awaiters > 0
  /\ \E e \in Procs : Commit(spawn(St, <<[op |-> "await", arg |-> e]>>))
  /\ budget' = [budget EXCEPT !.awaiters = @ - 1]
  /\ UNCHANGED held

\* proc.add_callback(cb), cb a callback that records its call
AddProcCallback ==
  /\ budget.cbs > 0
  /\ \E e \in Procs :
       Commit(add_callback(St, e, [kind |-> "log", arg |-> budget.cbs,
                                   aux |-> 0]))
  /\ budget' = [budget EXCEPT !.cbs = @ - 1]
  /\ UNCHANGED held

\* The main program calls coroutine functions whose bodies throw, in a build
\* with or without assertions.
InitThrowing == Start(ThrowingProgram) /\ NoStore /\ available_ = 0
  /\ ndebug \in BOOLEAN
  /\ garbage_time = 0
  /\ null_read = "crash"

NextThrowing ==
  \/ SpawnThrower
  \/ SpawnWatcher
  \/ AddProcCallback
  \/ Abort
  \/ Step
  \/ Run

SpecThrowing == InitThrowing /\ [][NextThrowing]_vars

\* clock_proc: while (true) { printf(now); co_await sim.timeout(delay); }
clock_proc(delay) ==
  <<[op |-> "print", arg |-> 0], [op |-> "timeout", arg |-> delay],
    [op |-> "loop", arg |-> 0]>>

\* clock_proc(sim, name, delay)
SpawnClock ==
  /\ budget.procs > 0
  /\ \E delay \in ClockDelays : Commit(spawn(St, clock_proc(delay)))
  /\ budget' = [budget EXCEPT !.procs = @ - 1]
  /\ UNCHANGED held

\* sim.step() while the next entry is not after ClockEnd
StepClock ==
  /\ ~empty(St)
  /\ top(scheduled_evs_).time_ <= ClockEnd
  /\ Commit(step(St))
  /\ UNCHANGED <<held, budget>>

\* sim.run_until(target), target up to ClockEnd
RunUntilClock ==
  /\ \E target \in now_..ClockEnd : Commit(run_until(St, target))
  /\ UNCHANGED <<held, budget>>

\* The main program of the README: it starts clocks and runs the simulation.
InitClocks == Start(ClockProgram) /\ NoStore /\ Checked /\ available_ = 0
  /\ null_read = "crash"

NextClocks ==
  \/ SpawnClock
  \/ StepClock
  \/ RunUntilClock

SpecClocks == InitClocks /\ [][NextClocks]_vars

\* resource_user: co_await res.request(); usage_times.push_back(sim.now());
\* co_await sim.timeout(use_time); res.release();
resource_user(use_time) ==
  <<[op |-> "request", arg |-> 0], [op |-> "print", arg |-> 0],
    [op |-> "timeout", arg |-> use_time], [op |-> "release", arg |-> 0]>>

\* resource_user(sim, res, use_time, usage_times)
SpawnUser ==
  /\ budget.procs > 0
  /\ \E use_time \in UseTimes : Commit(spawn(St, resource_user(use_time)))
  /\ budget' = [budget EXCEPT !.procs = @ - 1]
  /\ UNCHANGED held

\* request = res.request() by the main program
Request ==
  /\ budget.events > 0
  /\ Commit(request(St, 0))
  /\ held' = held \cup {Len(evs) + 1}
  /\ budget' = [budget EXCEPT !.events = @ - 1]

\* res.release() by the main program
Release ==
  /\ budget.releases > 0
  /\ Commit(release(St))
  /\ budget' = [budget EXCEPT !.releases = @ - 1]
  /\ UNCHANGED held

\* request.abort() by the main program
AbortRequest ==
  /\ \E e \in held : Commit(abort(St, e))
  /\ UNCHANGED <<held, budget>>

\* resource res(sim, available): the main program starts users of it,
\* requests, aborts its requests and releases.
InitResource == Start(ResourceProgram) /\ NoStore /\ Checked
  /\ available_ \in Capacities
  /\ null_read = "crash"

NextResource ==
  \/ SpawnUser
  \/ Request
  \/ Release
  \/ AbortRequest
  \/ Step
  \/ Run

SpecResource == InitResource /\ [][NextResource]_vars

\* The requests the resource granted (it triggered their events) and the
\* release() calls the main program made.
ResourceRequests ==
  {e \in 1..Len(evs) : \E i \in 1..Len(evlog[e]) : evlog[e][i].k = "request"}
Granted == {e \in ResourceRequests : triggered(St, e)}
MainReleases == MaxMainReleases - budget.releases

\* res.release() by the main program while it holds a granted request
ReleaseHeld ==
  /\ Cardinality(Granted \cap held) > MainReleases
  /\ Release

\* As the resource program, the main program releasing only what it holds.
NextHolders ==
  \/ SpawnUser
  \/ Request
  \/ ReleaseHeld
  \/ AbortRequest
  \/ Step
  \/ Run

SpecHolders == InitResource /\ [][NextHolders]_vars

\* The coroutine of the test that gives up: it waits for request | timeout
\* and aborts its request unless the request is triggered.
impatient_user ==
  <<[op |-> "request | timeout", arg |-> WaitTime],
    [op |-> "else abort", arg |-> 0],
    [op |-> "print", arg |-> 0], [op |-> "timeout", arg |-> WaitTime],
    [op |-> "release", arg |-> 0]>>

\* proc(sim)
SpawnImpatient ==
  /\ budget.awaiters > 0
  /\ Commit(spawn(St, impatient_user))
  /\ budget' = [budget EXCEPT !.awaiters = @ - 1]
  /\ UNCHANGED held

\* resource res(sim, available) with users of whom one may give up.
InitImpatient == Start(ImpatientProgram) /\ NoStore /\ Checked
  /\ available_ \in Capacities
  /\ null_read = "crash"

NextImpatient ==
  \/ SpawnUser
  \/ SpawnImpatient
  \/ Step
  \/ Run

SpecImpatient == InitImpatient /\ [][NextImpatient]_vars

\* put = store.put(value), the next of PutValues
Put ==
  /\ budget.puts > 0
  /\ Commit(put(St, 0, PutValues[MaxPuts - budget.puts + 1]))
  /\ held' = held \cup {Len(evs) + 1}
  /\ budget' = [budget EXCEPT !.puts = @ - 1]

\* ev = store.get() by the main program
Get ==
  /\ budget.gets > 0
  /\ Commit(get(St, 0))
  /\ held' = held \cup {Len(evs) + 1}
  /\ budget' = [budget EXCEPT !.gets = @ - 1]

\* proc(sim), its body result = co_await store.get()
SpawnGetter ==
  /\ budget.procs > 0
  /\ Commit(spawn(St, <<[op |-> "get", arg |-> 0]>>))
  /\ budget' = [budget EXCEPT !.procs = @ - 1]
  /\ UNCHANGED held

\* put.abort() or ev.abort() by the main program
AbortPutOrGet ==
  /\ \E e \in held : Commit(abort(St, e))
  /\ UNCHANGED <<held, budget>>

\* store<int> store(sim, capacity): the main program puts and gets, aborts
\* the events it got and starts coroutines that get.
InitStore == Start(StoreProgram) /\ Checked /\ available_ = 0
  /\ capacity_ \in StoreCapacities
  /\ null_read = "crash"

NextStore ==
  \/ Put
  \/ Get
  \/ SpawnGetter
  \/ AbortPutOrGet
  \/ Step
  \/ Run

SpecStore == InitStore /\ [][NextStore]_vars

InitAllOf == Start(AllOfProgram) /\ NoStore /\ Checked /\ available_ = 0
  /\ null_read = "crash"

NextAllOf ==
  \/ NewEvent
  \/ Timeout
  \/ Trigger
  \/ Abort
  \/ AddCallback
  \/ SpawnAwaiter
  \/ AllOf
  \/ Step
  \/ Run

SpecAllOf == InitAllOf /\ [][NextAllOf]_vars

\* ------------------------------------------------------------ properties
Range(q) == {q[i] : i \in 1..Len(q)}

\* Entry a comes before entry b in (time, sequence number) order.
Before(a, b) ==
  a.time_ < b.time_ \/ (a.time_ = b.time_ /\ a.id_ < b.id_)

\* Every heap entry ever created: those step() took and those still queued.
Entries == scheduled_evs_ \cup Range(popped)

\* The entries of an event's log whose kind is in ks, in order.
Sel(log, ks) ==
  LET Test(x) == x.k \in ks IN SelectSeq(log, Test)

Who(q) == [i \in 1..Len(q) |-> q[i].who]

Nondecreasing(q) == \A i, j \in 1..Len(q) : i < j => q[i] <= q[j]

\* C1: step() takes the entry with the smallest (time, sequence number):
\* the entries are taken in strictly ascending (time, seq) order, so equal
\* times go in the order they were scheduled; every entry taken comes before
\* every entry still queued; the next step takes an entry that comes before
\* all others; no two entries share a sequence number, and the numbers are
\* 0 .. next_id_ - 1.
C1_StepTakesSmallestTimeThenSeq ==
  /\ \A i, j \in 1..Len(popped) : i < j => Before(popped[i], popped[j])
  /\ \A x \in Range(popped) : \A y \in scheduled_evs_ : Before(x, y)
  /\ ~empty(St) =>
       LET r == step(St)
           sev == r.popped[Len(r.popped)]
       IN /\ sev \in scheduled_evs_
          /\ \A y \in scheduled_evs_ \ {sev} : Before(sev, y)
  /\ \A x, y \in Entries : x.id_ = y.id_ => x = y
  /\ {x.id_ : x \in Entries} = 0..(next_id_ - 1)
  /\ Cardinality(Range(popped)) = Len(popped)

\* Two entries of one time were taken, and an entry scheduled later was taken
\* before an entry scheduled earlier (its time is smaller).
C1_Witness ==
  /\ \E i, j \in 1..Len(popped) :
       i < j /\ popped[i].time_ = popped[j].time_
  /\ \E i, j \in 1..Len(popped) :
       i < j /\ popped[i].id_ > popped[j].id_

\* C2: no call makes now() smaller, and the now() values the notified
\* callbacks and coroutines observe, in the order they are notified, never
\* decrease and never exceed the current now().
C2_NowNeverDecreases ==
  [][/\ now_' >= now_
     /\ Nondecreasing(seen')
     /\ seen' # <<>> => seen'[Len(seen')] <= now_']_vars

\* A callback or a coroutine observed a now() that is later than the
\* present one: a run_until() called by a callback moved the clock on, and
\* the run_until() that was running then set it to its own, earlier target.
C2_NowWentBack ==
  /\ ~crashed
  /\ \E i \in 1..Len(seen) : seen[i] > now_

\* Callbacks ran at two different times, and run_until() moved now() past
\* the last of them.
C2_Witness ==
  /\ Len(seen) >= 2
  /\ seen[1] < seen[Len(seen)]
  /\ seen[Len(seen)] < now_

\* run_until(target) called in the current state.
C3_RunUntil(target) ==
  LET r == run_until(St, target)
      taken == {r.popped[i] : i \in (Len(popped) + 1)..Len(r.popped)}
  IN /\ r.now_ = target
     /\ \A x \in taken : x.time_ < target
     /\ \A x \in r.scheduled_evs_ : x.time_ >= target
     /\ \A x \in scheduled_evs_ : x.time_ < target <=> x \in taken
     /\ \A x \in scheduled_evs_ : x.time_ = target => x \in r.scheduled_evs_
     /\ {x.id_ : x \in r.scheduled_evs_ \cup Range(r.popped)}
          = 0..(r.next_id_ - 1)
     /\ (\E x \in r.scheduled_evs_ : x.time_ = target) =>
          LET r2 == step(r)
          IN /\ r2.now_ = target
             /\ r2.popped[Len(r2.popped)].time_ = target

\* C3: run_until(target) with target >= now() processes exactly the entries
\* whose time is below target (those queued at the call and those scheduled
\* during it), leaves every entry at target queued, returns with
\* now() = target, and a following step() takes an entry at target.
C3_RunUntilStopsBeforeTarget ==
  \A d \in Delays : C3_RunUntil(now_ + d)

\* run_until() took an entry of an earlier time and returned with now() at
\* its target, where an entry scheduled before the one it took is queued.
C3_Witness ==
  /\ popped # <<>>
  /\ popped[Len(popped)].time_ < now_
  /\ \E x \in scheduled_evs_ :
       x.time_ = now_ /\ x.id_ < popped[Len(popped)].id_

\* The state sequences an event can go through.
Lifecycles ==
  { <<"pending">>,
    <<"pending", "triggered">>,
    <<"pending", "aborted">>,
    <<"pending", "processed">>,
    <<"pending", "triggered", "processed">> }

\* C4: an event starts Pending and its state changes only from Pending to
\* Triggered, Aborted or Processed and from Triggered to Processed;
\* Processed and Aborted are never left.
C4_EventLifecycle ==
  \A e \in 1..Len(evs) :
    /\ hist[e] \in Lifecycles
    /\ evs[e].state_ = hist[e][Len(hist[e])]

\* One event went Pending, Triggered, Processed; another was aborted and
\* its heap entry was taken afterwards.
C4_Witness ==
  \E e1, e2 \in 1..Len(evs) :
    /\ hist[e1] = <<"pending", "triggered", "processed">>
    /\ hist[e2] = <<"pending", "aborted">>
    /\ \E x \in Range(popped) : x.ev_ = e2

\* C5: an event is processed at most once and every callback or coroutine
\* registered on it is called or resumed at most once, however many heap
\* entries refer to it; a step() that takes an entry of a Processed or
\* Aborted event notifies nobody and changes no event.
C5_NotifiedAtMostOnce ==
  /\ \A e \in 1..Len(evs) :
       /\ Cardinality({i \in 1..Len(hist[e]) : hist[e][i] = "processed"}) <= 1
       /\ \A i, j \in 1..Len(evlog[e]) :
            (/\ i # j
             /\ evlog[e][i].k \in {"cb", "resume"}
             /\ evlog[e][j].k = evlog[e][i].k)
              => evlog[e][i].who # evlog[e][j].who
  /\ (/\ ~empty(St)
      /\ LET e == top(scheduled_evs_).ev_
         IN processed(St, e) \/ aborted(St, e))
       => LET r == step(St)
          IN /\ r.evs = evs
             /\ r.procs = procs
             /\ r.evlog = evlog
             /\ r.seen = seen
             /\ r.hist = hist
             /\ r.next_id_ = next_id_

\* Two heap entries of one event were taken and its callback was called.
C5_Witness ==
  \E e \in 1..Len(evs) :
    /\ Cardinality({i \in 1..Len(popped) : popped[i].ev_ = e}) >= 2
    /\ processed(St, e)
    /\ Sel(evlog[e], {"cb"}) # <<>>

\* The notifications of event e, in order: coroutines resumed, coroutines
\* destroyed in their turn, callbacks called.
Resumed(e) == Sel(evlog[e], {"resume"})
Turns(e) == Sel(evlog[e], {"resume", "destroy"})
Called(e) == Sel(evlog[e], {"cb"})
Suspended(e) == Sel(evlog[e], {"suspend"})
Added(e) == Sel(evlog[e], {"add_cb"})

\* The awaiting coroutines of e are resumed in the order they suspended.
C6_AwaitersResumedInOrder(e) == Who(Resumed(e)) = Who(Suspended(e))

\* The awaiting coroutines of e take their turn in the order they suspended;
\* every one whose own process is not aborted was resumed in its turn, the
\* others were resumed or destroyed (a process can be aborted after its
\* coroutine was resumed on e and suspended again).
C6_AwaitersTakeTurnsInOrder(e) ==
  /\ Who(Turns(e)) = Who(Suspended(e))
  /\ \A i \in 1..Len(Turns(e)) :
       ~is_aborted(St, Turns(e)[i].who) => Turns(e)[i].k = "resume"

\* Every coroutine of e has its turn before any callback; the callbacks are
\* called in the order they were added; all observe one now().
C6_ThenCallbacksInOrder(e) ==
  /\ Sel(evlog[e], {"resume", "destroy", "cb"}) = Turns(e) \o Called(e)
  /\ Who(Called(e)) = Who(Added(e))
  /\ \A x, y \in Range(Turns(e) \o Called(e)) : x.t = y.t

\* C6 as stated: when an event is processed, every coroutine awaiting it is
\* resumed, in the order they suspended, then the callbacks are called in
\* the order they were added, all at one now().
C6_EveryAwaiterResumed ==
  \A e \in 1..Len(evs) :
    processed(St, e) =>
      C6_AwaitersResumedInOrder(e) /\ C6_ThenCallbacksInOrder(e)

\* C6, amended: when an event is processed, the coroutines awaiting it take
\* their turn in the order they suspended, each resumed unless its own
\* process is aborted (then it is destroyed in its turn); then the callbacks
\* are called in the order they were added; all at one now().
C6_AwaitersThenCallbacksInOrder ==
  \A e \in 1..Len(evs) :
    processed(St, e) =>
      C6_AwaitersTakeTurnsInOrder(e) /\ C6_ThenCallbacksInOrder(e)

\* An event with two awaiting coroutines and two callbacks was processed.
C6_Witness ==
  \E e \in 1..Len(evs) :
    /\ processed(St, e)
    /\ Len(Resumed(e)) >= 2
    /\ Len(Called(e)) >= 2

\* C7: trigger() and abort() on an event that is not Pending change
\* nothing: state, predicates, heap (no second entry), sequence counter,
\* awaiting coroutines and callbacks are as before; a Triggered event has
\* its heap entry and is processed by a following run() although abort()
\* was called on it.
C7_TriggerAbortOnlyOnPending ==
  \A e \in 1..Len(evs) :
    /\ ~pending(St, e) => trigger(St, e) = St /\ abort(St, e) = St
    /\ evs[e].state_ = "triggered" =>
         /\ \E x \in scheduled_evs_ : x.ev_ = e
         /\ processed(run(abort(St, e)), e)

\* A Triggered event with its single heap entry, a Processed event and an
\* Aborted event exist: cases in which trigger() and abort() are no-ops.
C7_Witness ==
  /\ \E e \in 1..Len(evs) :
       /\ evs[e].state_ = "triggered"
       /\ Cardinality({x \in scheduled_evs_ : x.ev_ = e}) = 1
       /\ evs[e].cbs_ # <<>>
  /\ \E e \in 1..Len(evs) : processed(St, e) \/ aborted(St, e)

\* C8: an Aborted event has no awaiting coroutine and no callback left;
\* every coroutine that was suspended on it is destroyed (its handle is
\* gone) and was never resumed on it, none of its callbacks was ever called;
\* a destroyed coroutine never changes again, whatever is called later
\* (taking a heap entry of the aborted event included).
C8_AbortDestroysAndDrops ==
  [][/\ \A e \in 1..Len(evs') :
          aborted(St', e) =>
            /\ evs'[e].promises_ = <<>>
            /\ evs'[e].cbs_ = <<>>
            /\ Sel(evlog'[e], {"resume", "cb"}) = <<>>
            /\ \A x \in Range(Sel(evlog'[e], {"suspend"})) :
                 /\ procs'[x.who].status = "destroyed"
                 /\ x.who \notin handles_'
     /\ \A e \in 1..Len(evs) :
          aborted(St, e) => aborted(St', e)
     /\ \A p \in 1..Len(procs) :
          procs[p].status = "destroyed" => procs'[p] = procs[p]]_vars

\* An event with a suspended coroutine and a callback was aborted, the
\* coroutine was destroyed, and a heap entry of the event was taken later.
C8_Witness ==
  \E e \in 1..Len(evs) :
    /\ aborted(St, e)
    /\ \E i, j \in 1..Len(evlog[e]) :
         /\ i < j
         /\ evlog[e][i].k = "suspend"
         /\ evlog[e][j].k = "destroy"
         /\ evlog[e][i].who = evlog[e][j].who
    /\ Added(e) # <<>>
    /\ \E x \in Range(popped) : x.ev_ = e

\* C9: a suspended coroutine whose process is aborted never runs again: its
\* position stays, it stays suspended until the event it awaits is
\* processed, which destroys it without resuming it; its process stays
\* aborted; no coroutine of an aborted process is ever running or finished.
C9_AbortedActorNeverResumes ==
  [][\A p \in 1..Len(procs) :
       /\ is_aborted(St, p) => is_aborted(St', p)
       /\ is_aborted(St', p) => procs'[p].status \in {"suspended", "destroyed"}
       /\ (procs[p].status = "suspended" /\ is_aborted(St, p)) =>
            /\ procs'[p].pc = procs[p].pc
            /\ \A e \in 1..Len(evs) :
                 (/\ \E i \in 1..Len(evs[e].promises_) : evs[e].promises_[i] = p
                  /\ processed(St', e))
                   => /\ procs'[p].status = "destroyed"
                      /\ p \notin handles_'
                      /\ \A x \in Range(Sel(evlog'[e], {"resume"})) : x.who # p
                      /\ \E x \in Range(Sel(evlog'[e], {"destroy"})) : x.who = p]_vars

\* A coroutine suspended in its body on an event of the main program had its
\* process aborted and was destroyed when that event was processed.
C9_Witness ==
  \E p \in 1..Len(procs) :
    /\ procs[p].status = "destroyed"
    /\ procs[p].pc = 2
    /\ is_aborted(St, p)
    /\ \E e \in held :
         /\ processed(St, e)
         /\ \E x \in Range(Sel(evlog[e], {"destroy"})) : x.who = p

\* The heap entry of the start event of coroutine p.
StartEntry(p) == CHOOSE x \in Entries : x.ev_ = procs[p].start

\* The body of coroutine p has started.
Started(p) == Resumed(procs[p].start) # <<>>

\* Entry x was taken before entry y.
TakenBefore(x, y) ==
  \E i, j \in 1..Len(popped) : i < j /\ popped[i] = x /\ popped[j] = y

\* C10: the call of a coroutine function runs none of the body: until the
\* start event is processed the coroutine is at its first statement,
\* suspended on the start event (or destroyed); the start event has one heap
\* entry, at the now() of the call; the body starts at that time;
\* coroutines called at one time start in the order of the calls, and after
\* every entry that was queued for that time before the call.
C10_SpawnDefersBody ==
  \A p \in 1..Len(procs) :
    LET e == procs[p].start IN
    /\ ~Started(p) =>
         /\ procs[p].pc = 1
         /\ procs[p].status \in {"suspended", "destroyed"}
    /\ Len(evlog[e]) > 0
    /\ evlog[e][1].k = "suspend" /\ evlog[e][1].who = p
    /\ Cardinality({x \in Entries : x.ev_ = e}) = 1
    /\ StartEntry(p).time_ = evlog[e][1].t
    /\ Started(p) =>
         /\ Who(Resumed(e)) = <<p>>
         /\ Resumed(e)[1].t = evlog[e][1].t
         /\ StartEntry(p) \in Range(popped)
         /\ \A q \in 1..Len(procs) :
              (q < p /\ StartEntry(q).time_ = StartEntry(p).time_)
                => TakenBefore(StartEntry(q), StartEntry(p))
         /\ \A y \in Entries :
              (y.time_ = StartEntry(p).time_ /\ y.id_ < StartEntry(p).id_)
                => TakenBefore(y, StartEntry(p))

\* Two coroutines called at one time, after an entry of the main program was
\* queued for that time, have both started.
C10_Witness ==
  \E p, q \in 1..Len(procs) :
    /\ p < q
    /\ Started(p) /\ Started(q)
    /\ StartEntry(p).time_ = StartEntry(q).time_
    /\ \E y \in Range(popped) :
         /\ y.ev_ \in held
         /\ y.time_ = StartEntry(p).time_
         /\ y.id_ < StartEntry(p).id_

\* The return of coroutine p, as logged on its process: <<>> before it.
Returned(p) == Sel(evlog[procs[p].ev_], {"return"})

\* The process of p was triggered by the return of the body of p, at the
\* now() of the return, and takes its turn in the heap at that time; once it
\* is processed, everything notified on it was notified at that time.
C11_CompletesAtReturn(p) ==
  LET c == procs[p].ev_
      t == Returned(p)[1].t
  IN /\ procs[p].status = "done"
     /\ hist[c] \in {<<"pending", "triggered">>,
                     <<"pending", "triggered", "processed">>}
     /\ Cardinality({x \in Entries : x.ev_ = c}) = 1
     /\ \A x \in Entries : x.ev_ = c => x.time_ = t
     /\ processed(St, c) <=> \E x \in Range(popped) : x.ev_ = c
     /\ \A x \in Range(Turns(c) \o Called(c)) : x.t = t

\* co_await proc by a coroutine q that is about to start with that statement:
\* as co_await on the event of the process, q goes on without suspending
\* when the event is Processed and otherwise suspends on it (is destroyed
\* when it is Aborted).
C11_AwaitLikeEvent(q) ==
  LET e == procs[q].start
      c == procs[q].body[1].arg
      r == resume(St, q, e)
  IN /\ processed(St, c) =>
          /\ r.procs[q].status = "done"
          /\ r.evs[c] = evs[c]
          /\ Sel(r.evlog[c], {"suspend"}) = Suspended(c)
     /\ pending(St, c) \/ evs[c].state_ = "triggered" =>
          /\ r.procs[q].status = "suspended"
          /\ r.evs[c].promises_ = Append(evs[c].promises_, q)
     /\ aborted(St, c) => r.procs[q].status = "destroyed"

\* The coroutines about to start with co_await proc.
C11_AboutToAwaitProcess ==
  {q \in 1..Len(procs) :
     /\ procs[q].status = "suspended"
     /\ procs[q].pc = 1
     /\ Len(procs[q].body) = 1
     /\ procs[q].body[1].op = "await"
     /\ procs[q].body[1].arg \in Procs}

\* C11 as stated: when the body of an actor returns at time t its process is
\* Triggered at t and processed at t, every coroutine suspended on it is
\* resumed at t, and co_await on the actor is co_await on its event.
C11_EveryAwaiterOfActorResumed ==
  /\ \A p \in 1..Len(procs) :
       Returned(p) # <<>> =>
         /\ C11_CompletesAtReturn(p)
         /\ processed(St, procs[p].ev_) =>
              C6_AwaitersResumedInOrder(procs[p].ev_)
  /\ \A q \in C11_AboutToAwaitProcess : C11_AwaitLikeEvent(q)

\* C11, amended: when the body of an actor returns at time t its process is
\* Triggered at t and processed at t; every coroutine suspended on it has
\* its turn at t and is resumed unless its own process is aborted (then it
\* is destroyed); co_await on the actor is co_await on its event, without
\* suspension when the event is already Processed.
C11_ActorCompletesAtReturnTime ==
  /\ \A p \in 1..Len(procs) :
       Returned(p) # <<>> =>
         /\ C11_CompletesAtReturn(p)
         /\ processed(St, procs[p].ev_) =>
              C6_AwaitersTakeTurnsInOrder(procs[p].ev_)
  /\ \A q \in C11_AboutToAwaitProcess : C11_AwaitLikeEvent(q)

\* An actor returned at a time after 0, its process was processed and a
\* coroutine suspended on it was resumed.
C11_Witness ==
  /\ \E p \in 1..Len(procs) :
       /\ Returned(p) # <<>>
       /\ Returned(p)[1].t > 0
       /\ processed(St, procs[p].ev_)
       /\ Resumed(procs[p].ev_) # <<>>

\* ------------------------------------------------------------ any_of
\* The processing of event e: empty, or one entry with its time.
ProcessedAt(e) == Sel(evlog[e], {"processed"})

Min(S) == CHOOSE x \in S : \A y \in S : x <= y

\* The any_of (all_of) calls made so far.
AnyOfs == {m \in Range(made) : m.kind = "any_of"}
AllOfs == {m \in Range(made) : m.kind = "all_of"}

\* The inputs of call m that are Processed now, and the times at which
\* they were processed.
InputsProcessed(m) == {i \in 1..Len(m.ins) : processed(St, m.ins[i])}
InputTimes(m) == {ProcessedAt(m.ins[i])[1].t : i \in InputsProcessed(m)}

\* The heap entries ever created for event e.
EntriesOf(e) == {x \in Entries : x.ev_ = e}

\* Everything notified on event e: coroutines resumed or destroyed, and
\* callbacks called.
Notified(e) == Sel(evlog[e], {"resume", "destroy", "cb"})

\* While no input of m is processed the output is Pending, has no heap
\* entry, and nothing suspended on it or added to it has been notified.
C12_PendingWhileNoInput(m) ==
  InputsProcessed(m) = {} =>
    /\ pending(St, m.out)
    /\ EntriesOf(m.out) = {}
    /\ Notified(m.out) = <<>>

\* Once an input of m is processed the output is Triggered with one heap
\* entry at time T, it is processed by the time the heap is empty, and it
\* is processed and notifies at T.
C12_ProcessedAt(m, T) ==
  InputsProcessed(m) # {} =>
    /\ triggered(St, m.out)
    /\ \E x \in EntriesOf(m.out) : EntriesOf(m.out) = {x} /\ x.time_ = T
    /\ empty(St) => processed(St, m.out)
    /\ processed(St, m.out) => ProcessedAt(m.out)[1].t = T
    /\ \A x \in Range(Notified(m.out)) : x.t = T

\* The trigger() calls the program made on event e itself.
TriggeredByProgram(e) == Sel(evlog[e], {"trigger"})

\* The program has not triggered or aborted the output of call m itself.
LeftAlone(m) == ~aborted(St, m.out) /\ TriggeredByProgram(m.out) = <<>>

\* C12: the output of any_of (one the program does not trigger or abort
\* itself) is processed only if an input is processed, and at the time at
\* which the earliest-processed input was processed.
C12_OutputProcessedWithEarliestInput ==
  \A m \in AnyOfs :
    LeftAlone(m) =>
      /\ C12_PendingWhileNoInput(m)
      /\ C12_ProcessedAt(m, Min(InputTimes(m)))

\* The output of call m as long as the program leaves it alone: it is
\* processed if and only if an input is processed (Triggered as soon as one
\* is, processed by the time the heap is empty), at the time of the
\* earliest-processed input when no input was Processed at the call, at the
\* time of the call otherwise; while no input is processed it stays Pending,
\* unscheduled, and its awaiters and callbacks are not notified.
C12_AnyOfProcessedWithFirstInput ==
  \A m \in AnyOfs :
    /\ C12_PendingWhileNoInput(m)
    /\ C12_ProcessedAt(m, IF m.done = {} THEN Min(InputTimes(m)) ELSE m.t)

\* An output the program aborted: it was Pending then, it was never
\* scheduled, triggered or processed, its awaiters were destroyed and
\* nothing was resumed or called, whatever happened to the inputs since.
C12_AbortedOutput(m) ==
  /\ hist[m.out] = <<"pending", "aborted">>
  /\ m.done = {}
  /\ EntriesOf(m.out) = {}
  /\ ProcessedAt(m.out) = <<>>
  /\ Sel(evlog[m.out], {"resume", "cb"}) = <<>>
  /\ evs[m.out].promises_ = <<>>

\* C12, amended: an any_of output the program does not trigger or abort
\* itself is processed if and only if an input is processed, at the time of
\* the earliest-processed input (of the call when an input was Processed
\* already), and stays Pending while none is; an output the program aborts
\* is Aborted and is never processed, also when an input is processed later;
\* an output the program triggers is processed at the time of that call.
C12_AnyOfOutput ==
  \A m \in AnyOfs :
    CASE aborted(St, m.out) -> C12_AbortedOutput(m)
      [] ~aborted(St, m.out) /\ TriggeredByProgram(m.out) # <<>> ->
           /\ Len(TriggeredByProgram(m.out)) = 1
           /\ C12_ProcessedAt([m EXCEPT !.ins = <<m.out>>],
                              TriggeredByProgram(m.out)[1].t)
           /\ triggered(St, m.out)
      [] OTHER ->
           /\ C12_PendingWhileNoInput(m)
           /\ C12_ProcessedAt(m, IF m.done = {} THEN Min(InputTimes(m))
                                               ELSE m.t)

\* The program aborted the output of an any_of call while a coroutine was
\* suspended on it; the coroutine was destroyed; an input was processed
\* afterwards, at a later time, and its any_of callback was called.
C12_OutputAborted ==
  \E m \in AnyOfs :
    /\ aborted(St, m.out)
    /\ Sel(evlog[m.out], {"destroy"}) # <<>>
    /\ \E i \in InputsProcessed(m) :
         /\ ProcessedAt(m.ins[i])[1].t > 0
         /\ \E x \in Range(Called(m.ins[i])) : x.who = m.out

\* any_of was called on two events not yet processed, they were processed
\* at different times, and a coroutine awaiting the output was resumed.
C12_Witness ==
  \E m \in AnyOfs :
    /\ m.done = {}
    /\ Cardinality(InputTimes(m)) = 2
    /\ processed(St, m.out)
    /\ Resumed(m.out) # <<>>

\* The callback any_of registered on an input, for output out.
AnyOfCallback(out) == [kind |-> "trigger", arg |-> out, aux |-> 0]

\* The calls of the callback of any_of output out made so far, over all of
\* its inputs.
AnyOfCallbackCalls(m) ==
  {<<i, j>> \in (1..Len(m.ins)) \X (1..Len(evs) + 1) :
     /\ j <= Len(Called(m.ins[i]))
     /\ Called(m.ins[i])[j].who = m.out}

\* C13: the output of any_of is triggered once and processed once however
\* many of its inputs are processed: it goes pending, triggered, processed,
\* has one heap entry at most, notifies each awaiter and callback once, and
\* once it is Triggered the callback of any input leaves its state, its
\* awaiters and callbacks and the heap as they are.
C13_AnyOfOutputOnce ==
  \A m \in AnyOfs :
    /\ hist[m.out] \in {<<"pending">>, <<"pending", "triggered">>,
                        <<"pending", "triggered", "processed">>}
    /\ Cardinality(EntriesOf(m.out)) <= 1
    /\ Len(ProcessedAt(m.out)) <= 1
    /\ \A i, j \in 1..Len(Notified(m.out)) :
         (/\ Notified(m.out)[i].who = Notified(m.out)[j].who
          /\ (Notified(m.out)[i].k = "cb") = (Notified(m.out)[j].k = "cb"))
           => i = j
    /\ triggered(St, m.out) =>
         \A i \in 1..Len(m.ins) :
           LET r == call_cb(St, m.ins[i], AnyOfCallback(m.out))
           IN /\ r.evs = evs
              /\ r.hist = hist
              /\ r.evlog[m.out] = evlog[m.out]
              /\ r.scheduled_evs_ = scheduled_evs_
              /\ r.next_id_ = next_id_

\* any_of was called on two events not yet processed; both were processed,
\* at different times, each called the callback of the output, and the
\* output was processed with a coroutine awaiting it resumed.
C13_Witness ==
  \E m \in AnyOfs :
    /\ m.done = {}
    /\ Cardinality(InputTimes(m)) = 2
    /\ Cardinality(AnyOfCallbackCalls(m)) = 2
    /\ processed(St, m.out)
    /\ Len(Resumed(m.out)) = 1

\* step() until event e is processed or the heap is empty.
RECURSIVE StepUntilProcessed(_, _)
StepUntilProcessed(s, e) ==
  IF processed(s, e) \/ empty(s) THEN s
  ELSE StepUntilProcessed(step(s), e)

\* In state r, the result of a call made in the current state, the event
\* out is new, not yet processed, has the newest heap entry, at the current
\* time, and the steps up to its processing leave now() as it is.
ScheduledNow(r, out) ==
  /\ out = Len(evs) + 1
  /\ r.evs[out].state_ \in {"pending", "triggered"}
  /\ \E x \in r.scheduled_evs_ :
       /\ x.ev_ = out
       /\ x.time_ = now_
       /\ x.id_ = next_id_
       /\ \A y \in r.scheduled_evs_ : y.ev_ = out => y = x
  /\ LET f == StepUntilProcessed(r, out)
     IN /\ processed(f, out)
        /\ f.now_ = now_
        /\ Sel(f.evlog[out], {"processed"}) =
             <<[k |-> "processed", who |-> 0, t |-> now_, v |-> nullptr]>>

\* C14: any_of called with an input that is already Processed gives an
\* output scheduled at the current time and processed at that time, whatever
\* happens to the other inputs; so does the any_of that takes a list, for a
\* Processed input and for the empty list.
C14_AnyOfOnProcessedInput ==
  /\ \A l \in InputLists :
       (\E i \in 1..Len(l) : processed(St, l[i])) =>
         LET r == any_of(St, l) IN ScheduledNow(r, Len(r.evs))
  /\ \A l \in InputLists \cup {<<>>} :
       (l = <<>> \/ \E i \in 1..Len(l) : processed(St, l[i])) =>
         LET r == any_of_vector(St, l) IN ScheduledNow(r, Len(r.evs))
  /\ \A m \in AnyOfs :
       (m.done # {} /\ processed(St, m.out)) => ProcessedAt(m.out)[1].t = m.t

\* any_of was called after time 0 on a Processed event and a Pending one,
\* and the output was processed and called a callback while the other input
\* still is Pending.
C14_Witness ==
  \E m \in AnyOfs :
    /\ m.t > 0
    /\ m.done # {}
    /\ \E i \in 1..Len(m.ins) : pending(St, m.ins[i])
    /\ processed(St, m.out)
    /\ Called(m.out) # <<>>

\* ------------------------------------------------------------ all_of
Max(S) == CHOOSE x \in S : \A y \in S : y <= x

\* While some input of m is not processed the output is Pending, has no
\* heap entry, and nothing suspended on it or added to it has been notified.
C15_PendingWhileInputMissing(m) ==
  InputsProcessed(m) # 1..Len(m.ins) =>
    /\ pending(St, m.out)
    /\ EntriesOf(m.out) = {}
    /\ Notified(m.out) = <<>>

\* Once every input of m is processed the output is Triggered with one heap
\* entry at the time the last input was processed, it is processed by the
\* time the heap is empty, and it is processed and notifies at that time.
C15_ProcessedWithLastInput(m) ==
  InputsProcessed(m) = 1..Len(m.ins) =>
    LET T == Max(InputTimes(m))
    IN /\ triggered(St, m.out)
       /\ \E x \in EntriesOf(m.out) : EntriesOf(m.out) = {x} /\ x.time_ = T
       /\ empty(St) => processed(St, m.out)
       /\ processed(St, m.out) => ProcessedAt(m.out)[1].t = T
       /\ \A x \in Range(Notified(m.out)) : x.t = T

\* C15: the output of all_of is processed if and only if every input is
\* processed (it is Triggered as soon as the last one is, and processed by
\* the time the heap is empty), at the time the last input is processed;
\* while an input is aborted or not processed the output stays Pending and
\* its awaiters are not resumed.
C15_AllOfProcessedWithLastInput ==
  \A m \in AllOfs :
    /\ C15_PendingWhileInputMissing(m)
    /\ C15_ProcessedWithLastInput(m)

\* What holds of all_of: the same, for the calls made while some input was
\* not yet Processed; the output of a call made when every input was
\* Processed stays Pending.
C15_AllOfWithInputMissingAtCall ==
  \A m \in AllOfs :
    /\ C15_PendingWhileInputMissing(m)
    /\ m.done # 1..Len(m.ins) => C15_ProcessedWithLastInput(m)
    /\ m.done = 1..Len(m.ins) =>
         /\ pending(St, m.out)
         /\ EntriesOf(m.out) = {}
         /\ Notified(m.out) = <<>>

\* all_of was called on a Processed event, a coroutine awaits the output,
\* the heap is empty and the output is Pending.
C15_Witness ==
  \E m \in AllOfs :
    /\ InputsProcessed(m) = 1..Len(m.ins)
    /\ Suspended(m.out) # <<>>
    /\ empty(St)
    /\ pending(St, m.out)

\* C16: all_of called when every input is already Processed gives an output
\* scheduled at the current time and processed at that time.
C16_AllOfOnProcessedInputs ==
  \A l \in InputLists :
    (\A i \in 1..Len(l) : processed(St, l[i])) =>
      LET r == all_of(St, l) IN ScheduledNow(r, Len(r.evs))

\* The all_of that takes a list does so, for Processed inputs and for the
\* empty list.
C16_AllOfVectorOnProcessedInputs ==
  \A l \in InputLists \cup {<<>>} :
    (\A i \in 1..Len(l) : processed(St, l[i])) =>
      LET r == all_of_vector(St, l) IN ScheduledNow(r, Len(r.evs))

\* all_of was called on two Processed events; the heap is empty.
C16_Witness ==
  \E m \in AllOfs :
    /\ Len(m.ins) = 2
    /\ m.ins[1] # m.ins[2]
    /\ m.done = {1, 2}
    /\ empty(St)

\* ------------------------------------------------------------ timeout
\* C18: timeout(d) called at time t returns a new event that is Pending and
\* not Triggered, with one heap entry, the newest, at t + d, and changes
\* nothing else; stepping from there processes it at now() = t + d.  An
\* event with one heap entry that was never triggered or aborted is not
\* processed while now() is before the time of the entry, and is processed
\* at that time.
C18_TimeoutProcessedAfterDelay ==
  /\ \A d \in Delays :
       LET r == timeout(St, d)
           ev == Len(r.evs)
           f == StepUntilProcessed(r, ev)
       IN /\ ev = Len(evs) + 1
          /\ pending(r, ev) /\ ~triggered(r, ev)
          /\ r.scheduled_evs_ =
               scheduled_evs_
                 \cup {[time_ |-> now_ + d, id_ |-> next_id_, ev_ |-> ev]}
          /\ r.now_ = now_
          /\ \A e \in 1..Len(evs) : r.evs[e] = evs[e]
          /\ processed(f, ev)
          /\ f.now_ = now_ + d
          /\ Sel(f.evlog[ev], {"processed"}) =
               <<[k |-> "processed", who |-> 0, t |-> now_ + d, v |-> nullptr]>>
  /\ \A e \in 1..Len(evs) :
       \A x \in EntriesOf(e) :
         (EntriesOf(e) = {x} /\ hist[e] \in {<<"pending">>,
                                             <<"pending", "processed">>})
           => /\ pending(St, e) <=> x \in scheduled_evs_
              /\ pending(St, e) => now_ <= x.time_
              /\ processed(St, e) => ProcessedAt(e)[1].t = x.time_
              /\ \A y \in Range(Notified(e)) : y.t = x.time_

\* The main program never called schedule; timeout(1) was called at time 1
\* and the event was processed at time 2 and called a callback.
C18_Witness ==
  /\ budget.sched = MaxSchedule
  /\ \E e \in 1..Len(evs) :
       /\ hist[e] = <<"pending", "processed">>
       /\ \E x \in EntriesOf(e) : x.time_ = 2
       /\ Called(e) # <<>>
       /\ Called(e)[1].t = 2

\* ------------------------------------------------------------ value events
\* The typed any_of calls made so far.
AnyOfValues == {m \in Range(made) : m.kind = "any_of_value"}

\* The step that processed event e: its place in the sequence of the heap
\* entries taken.
FirstPop(e) == Min({i \in 1..Len(popped) : popped[i].ev_ = e})

\* The input of m that was processed first, m having a Processed input.
FirstProcessed(m) ==
  CHOOSE i \in InputsProcessed(m) :
    \A j \in InputsProcessed(m) : FirstPop(m.ins[i]) <= FirstPop(m.ins[j])

\* While no input of m is processed the output is a Pending value event
\* without payload and nothing was notified on it; once an input is
\* processed the output is a Triggered value event whose payload is that of
\* input i, and its awaiters are resumed at time T with that payload.
C17_PayloadOf(m, i, T) ==
  /\ evs[m.out].typed
  /\ InputsProcessed(m) = {} =>
       /\ pending(St, m.out)
       /\ evs[m.out].value_ = nullptr
       /\ Notified(m.out) = <<>>
  /\ InputsProcessed(m) # {} =>
       /\ triggered(St, m.out)
       /\ evs[m.out].value_ = evs[m.ins[i]].value_
       /\ evs[m.out].value_ \in Values \cup {default_value}
       /\ empty(St) => processed(St, m.out)
       /\ \A x \in Range(Resumed(m.out)) :
            x.v = evs[m.ins[i]].value_ /\ x.t = T

\* The payload of the output of the typed any_of is that of the input that
\* was processed first, and the awaiters are resumed at the time that input
\* was processed.
C17_PayloadOfFirstProcessed ==
  \A m \in AnyOfValues :
    C17_PayloadOf(m, FirstProcessed(m),
                  ProcessedAt(m.ins[FirstProcessed(m)])[1].t)

\* C17, amended: the output of the typed any_of is a value event whose
\* payload is that of the input processed first when no input was Processed
\* at the call, and that of the first Processed input in argument order
\* otherwise; the payload of no other input is delivered to the awaiters,
\* which are resumed at the time of the first-processed input, or of the
\* call when an input was Processed then.
C17_TypedAnyOfPayload ==
  \A m \in AnyOfValues :
    IF m.done = {}
    THEN C17_PayloadOf(m, FirstProcessed(m),
                       ProcessedAt(m.ins[FirstProcessed(m)])[1].t)
    ELSE C17_PayloadOf(m, Min(m.done), m.t)

\* The typed any_of was called on two value events not yet processed, with
\* different payloads; they were processed at different times and a
\* coroutine awaiting the output was resumed with the payload of the first.
C17_Witness ==
  \E m \in AnyOfValues :
    /\ m.done = {}
    /\ Cardinality(InputTimes(m)) = 2
    /\ evs[m.ins[1]].value_ # evs[m.ins[2]].value_
    /\ processed(St, m.out)
    /\ Resumed(m.out) # <<>>
    /\ Resumed(m.out)[1].v = evs[m.ins[FirstProcessed(m)]].value_

\* A Processed value event has its payload, and had it whenever a coroutine
\* awaiting it was resumed; no read through an empty payload slot ended the
\* program.
C19_PayloadSet ==
  /\ ~crashed
  /\ \A e \in 1..Len(evs) :
       (evs[e].typed /\ processed(St, e)) =>
         /\ evs[e].value_ # nullptr
         /\ ProcessedAt(e)[1].v # nullptr
         /\ \A x \in Range(Resumed(e)) : x.v # nullptr

\* C19: in every reachable state a Processed value event has its payload
\* set: no sequence of event<V>(), schedule, timeout<V>, trigger, abort,
\* step and run processes a value event, or resumes its awaiters, while its
\* payload slot is empty.
C19_ProcessedValueEventHasPayload == C19_PayloadSet

\* What holds: the same, as long as the main program has not called
\* schedule on a value event.
C19_PayloadSetUnlessScheduled ==
  budget.sched = MaxValueSchedule => C19_PayloadSet

\* A value event without payload was scheduled and processed, and the
\* coroutine awaiting it was resumed and read its payload.
C19_Witness ==
  \E e \in held :
    /\ processed(St, e)
    /\ evs[e].value_ = nullptr
    /\ \E x \in Range(Resumed(e)) : x.v = nullptr
    /\ crashed \/ null_read = "continue"

\* C20: trigger(value) on a value event that is not Pending changes nothing
\* (no state, no payload, no heap entry, no sequence number); the payload of
\* such an event never changes again, and every awaiter resumed on it gets
\* the payload it had when it stopped being Pending.
C20_TriggerValueOnlyOnPending ==
  [][\A e \in 1..Len(evs) :
       (evs[e].typed /\ ~pending(St, e)) =>
         /\ \A v \in Values \cup {default_value} :
              trigger_value(St, e, v) = St
         /\ evs'[e].value_ = evs[e].value_
         /\ \A x \in Range(Sel(evlog'[e], {"resume"})) :
              x.v = evs[e].value_]_vars

\* A value event was triggered with a payload and processed, and the
\* coroutine awaiting it was resumed with that payload.
C20_Witness ==
  \E e \in held :
    /\ hist[e] = <<"pending", "triggered", "processed">>
    /\ evs[e].value_ \in Values
    /\ \E x \in Range(Resumed(e)) : x.v = evs[e].value_

\* ------------------------------------------------------------ value actors
\* The coroutines whose process is a value process.
ValueActors == {p \in 1..Len(procs) : evs[procs[p].ev_].typed}

\* C21: a value-returning actor whose body returned v at time t has a
\* process that is Triggered at t with payload v, stored by the time it is
\* Triggered, and processed at t; every coroutine resumed on it is resumed
\* at t with payload v, and no read of the payload finds the slot empty;
\* before the return the process has no payload and is not Triggered.
C21_AwaitYieldsReturnedValue ==
  /\ ~crashed
  /\ \A p \in ValueActors :
       LET ev == procs[p].ev_ IN
       /\ Len(Returned(p)) <= 1
       /\ triggered(St, ev) <=> Returned(p) # <<>>
       /\ Returned(p) = <<>> =>
            evs[ev].value_ = nullptr /\ Resumed(ev) = <<>>
       /\ Returned(p) # <<>> =>
            LET ret == Returned(p)[1] IN
            /\ evs[ev].value_ = ret.v
            /\ \E x \in EntriesOf(ev) :
                 EntriesOf(ev) = {x} /\ x.time_ = ret.t
            /\ empty(St) => processed(St, ev)
            /\ processed(St, ev) =>
                 ProcessedAt(ev)[1].t = ret.t /\ ProcessedAt(ev)[1].v = ret.v
            /\ \A x \in Range(Resumed(ev)) : x.t = ret.t /\ x.v = ret.v

\* Two value-returning actors returned different values, one at time 1,
\* and a coroutine awaiting that one was resumed with its value at time 1.
C21_Witness ==
  \E p, q \in ValueActors :
    /\ Returned(p) # <<>> /\ Returned(q) # <<>>
    /\ Returned(p)[1].t = 1
    /\ Returned(p)[1].v # Returned(q)[1].v
    /\ \E x \in Range(Resumed(procs[p].ev_)) :
         x.t = 1 /\ x.v = Returned(p)[1].v

\* ------------------------------------------------------------ callbacks
\* A callback that records its call, with a tag no other callback has.
C22_Probe == [kind |-> "log", arg |-> 0, aux |-> 0]

\* The places in the log of event e at which a coroutine or a callback
\* tried to add a callback to e after e was processed.
C22_LateAdds(e) ==
  {j \in 1..Len(evlog[e]) :
     /\ evlog[e][j].k = "try_add"
     /\ \E i \in 1..j : evlog[e][i].k = "processed"}

\* C22: add_callback on a Pending or Triggered event appends the callback,
\* and the callbacks so added are called once each, in order, when the
\* event is processed, and not before; add_callback on a Processed or
\* Aborted event changes nothing, also when a coroutine or a callback calls
\* it while the event is being processed, and such a callback is never
\* called; an Aborted event calls no callback.
C22_CallbackCalledOnceOrDiscarded ==
  \A e \in 1..Len(evs) :
    /\ (processed(St, e) \/ aborted(St, e)) =>
         /\ add_callback(St, e, C22_Probe) = St
         /\ evs[e].cbs_ = <<>>
    /\ ~(processed(St, e) \/ aborted(St, e)) =>
         /\ add_callback(St, e, C22_Probe).evs[e].cbs_ =
              Append(evs[e].cbs_, C22_Probe)
         /\ [i \in 1..Len(evs[e].cbs_) |-> evs[e].cbs_[i].arg] =
              Who(Added(e))
         /\ Called(e) = <<>>
    /\ processed(St, e) =>
         /\ Who(Called(e)) = Who(Added(e))
         /\ \A x \in Range(Called(e)) : x.t = ProcessedAt(e)[1].t
    /\ aborted(St, e) => Called(e) = <<>>
    /\ \A j \in C22_LateAdds(e) :
         \A x \in Range(Added(e)) \cup Range(Called(e)) :
           x.who # evlog[e][j].who
    /\ \A i, j \in 1..Len(evlog[e]) :
         (i < j /\ evlog[e][i].k = "processed") => evlog[e][j].k # "add_cb"

\* An event was processed and called a callback; while it was processed a
\* callback of it and a coroutine resumed on it tried to add a callback to
\* it.
C22_Witness ==
  \E e \in held :
    /\ processed(St, e)
    /\ Called(e) # <<>>
    /\ Resumed(e) # <<>>
    /\ \E j \in C22_LateAdds(e) :
         /\ evlog[e][j].who > 2 * MaxCallbackAdds
         /\ evlog[e][j].t = ProcessedAt(e)[1].t
    /\ \E j \in C22_LateAdds(e) :
         /\ evlog[e][j].who <= 2 * MaxCallbackAdds
         /\ evlog[e][j].t = ProcessedAt(e)[1].t

\* ------------------------------------------------------------ co_await
\* The coroutines that have not started and start with co_await on an event.
C23_AboutToAwait ==
  {q \in 1..Len(procs) :
     /\ procs[q].status = "suspended"
     /\ procs[q].pc = 1
     /\ Len(procs[q].body) = 1
     /\ procs[q].body[1].op = "await"}

\* Coroutine q starts now and awaits event c: it goes on without being
\* registered when c is Processed, it is destroyed when c is Aborted, and it
\* is suspended and registered last when c is Pending or Triggered.
C23_Await(q) ==
  LET c == procs[q].body[1].arg
      r == resume(St, q, procs[q].start)
  IN /\ processed(St, c) =>
          /\ r.procs[q].status = "done"
          /\ r.evs[c] = evs[c]
          /\ r.evlog[c] = evlog[c]
     /\ aborted(St, c) =>
          /\ r.procs[q].status = "destroyed"
          /\ q \notin r.handles_
          /\ r.evs[c] = evs[c]
          /\ r.evlog[c] =
               Append(evlog[c], [k |-> "destroy", who |-> q, t |-> now_,
                                 v |-> nullptr])
     /\ ~(processed(St, c) \/ aborted(St, c)) =>
          /\ r.procs[q].status = "suspended"
          /\ r.procs[q].pc = 2
          /\ r.evs[c].promises_ = Append(evs[c].promises_, q)
          /\ Sel(r.evlog[c], {"resume"}) = Resumed(c)

\* The coroutines registered on event e are those suspended on it while it
\* is Pending or Triggered; none has had a turn then, and none is resumed
\* once e is Aborted.
C23_Registered(e) ==
  /\ ~(processed(St, e) \/ aborted(St, e)) =>
       /\ evs[e].promises_ = Who(Suspended(e))
       /\ Turns(e) = <<>>
  /\ (processed(St, e) \/ aborted(St, e)) => evs[e].promises_ = <<>>
  /\ aborted(St, e) => Resumed(e) = <<>>
  /\ \A i, j \in 1..Len(Suspended(e)) :
       Suspended(e)[i].who = Suspended(e)[j].who => i = j

\* A coroutine registered on an event is resumed exactly once, when the
\* event is processed.
C23_RegisteredAwaiterResumedOnce ==
  /\ \A q \in C23_AboutToAwait : C23_Await(q)
  /\ \A e \in 1..Len(evs) :
       /\ C23_Registered(e)
       /\ processed(St, e) =>
            /\ Who(Resumed(e)) = Who(Suspended(e))
            /\ \A x \in Range(Resumed(e)) : x.t = ProcessedAt(e)[1].t

\* C23, amended: a coroutine that awaits a Processed event does not suspend
\* and is not registered; one that awaits an Aborted event is destroyed at
\* once and never resumed; an await on a Pending or Triggered event
\* registers the coroutine, which then has one turn, when the event is
\* processed: it is resumed, unless its own process is aborted by then, in
\* which case it is destroyed.
C23_AwaitRegistersOnlyOnPendingOrTriggered ==
  /\ \A q \in C23_AboutToAwait : C23_Await(q)
  /\ \A e \in 1..Len(evs) :
       /\ C23_Registered(e)
       /\ processed(St, e) =>
            /\ Who(Turns(e)) = Who(Suspended(e))
            /\ \A x \in Range(Turns(e)) :
                 /\ x.t = ProcessedAt(e)[1].t
                 /\ ~is_aborted(St, x.who) => x.k = "resume"

\* An event of the main program was processed and resumed a coroutine
\* suspended on it; another coroutine awaited it afterwards and went on
\* without suspending.
C23_Witness ==
  \E e \in held :
    /\ processed(St, e)
    /\ Resumed(e) # <<>>
    /\ \E q \in 1..Len(procs) :
         /\ procs[q].status = "done"
         /\ procs[q].body = <<[op |-> "await", arg |-> e]>>
         /\ \A x \in Range(Suspended(e)) : x.who # q

\* ------------------------------------------------------------ C24
\* The parts of the state a failed call has to leave alone.
Untouched(r) ==
  /\ r.scheduled_evs_ = scheduled_evs_
  /\ r.next_id_ = next_id_
  /\ r.now_ = now_
  /\ \A e \in 1..Len(evs) : r.evs[e] = evs[e]

\* C24: schedule(ev, d) and timeout(d) with d < 0 fail and mutate nothing:
\* the program does not go on past the call, and the heap, the next id, now()
\* and the state of every existing event are those before the call.
C24_NegativeDelayFailsAndMutatesNothing ==
  ~crashed =>
    /\ \A e \in held :
         LET r == schedule(St, e, -1) IN r.crashed /\ Untouched(r)
    /\ LET r == timeout(St, -1) IN r.crashed /\ Untouched(r)

\* A build without assertions took a negative delay: an entry of a time
\* before now() is in the heap.
C24_Witness ==
  /\ ndebug
  /\ ~crashed
  /\ \E x \in scheduled_evs_ : x.time_ < now_

\* ------------------------------------------------------------ C25
\* C25: step() called when the heap is empty fails: the program does not go
\* on past the call, no event is processed and now() is unchanged.
C25_StepOnEmptyHeapFails ==
  (~crashed /\ empty(St)) =>
    LET r == step(St)
    IN /\ r.crashed
       /\ r.now_ = now_
       /\ r.evs = evs
       /\ r.popped = popped

\* step() went on from an empty heap with a now() the heap never held.
C25_Witness ==
  /\ ~crashed
  /\ empty(St)
  /\ null_read = "continue"
  /\ now_ = garbage_time
  /\ now_ < 0

\* ------------------------------------------------------------ C26
\* C26: run_until(target) with target < now() fails: the program does not go
\* on past the call, no heap entry is processed and now() keeps its value.
C26_RunUntilEarlierTargetFails ==
  ~crashed =>
    \A target \in 0..MaxTime :
      target < now_ =>
        LET r == run_until(St, target)
        IN /\ r.crashed
           /\ r.popped = popped
           /\ r.scheduled_evs_ = scheduled_evs_
           /\ r.now_ = now_

\* A build without assertions returned from run_until(target) with now() at
\* a target below the time of an entry it had already taken.
C26_Witness ==
  /\ ndebug
  /\ ~crashed
  /\ popped # <<>>
  /\ now_ >= 0
  /\ now_ < popped[Len(popped)].time_

\* ------------------------------------------------------------ C27
\* The coroutines whose body threw.
Failed == {p \in 1..Len(procs) : procs[p].status = "failed"}

\* C27: the completion event of a coroutine whose body threw is never
\* triggered: it is Pending (Aborted once the main program aborted it), it
\* has no heap entry, and no coroutine awaiting it is resumed and no callback
\* added to it is called.
C27_FailedActorEventStaysPending ==
  \A p \in Failed :
    LET ev == procs[p].ev_
    IN /\ pending(St, ev) \/ aborted(St, ev)
       /\ \A i \in 1..Len(hist[ev]) : hist[ev][i] \in {"pending", "aborted"}
       /\ \A x \in scheduled_evs_ : x.ev_ # ev
       /\ Resumed(ev) = <<>>
       /\ Called(ev) = <<>>

\* A coroutine threw after a delay, a coroutine awaits it and a callback was
\* added to it, and the run ended with its event Pending.
C27_Witness ==
  /\ ~crashed
  /\ empty(St)
  /\ \E p \in Failed :
       LET ev == procs[p].ev_
       IN /\ pending(St, ev)
          /\ now_ > 0
          /\ Suspended(ev) # <<>>
          /\ Added(ev) # <<>>

\* ------------------------------------------------------------ C28
\* The coroutines that are live: spawned, not returned, not failed and not
\* destroyed.
Live == {p \in 1..Len(procs) : procs[p].status = "suspended"}

\* How often coroutine p was destroyed through an event.
Destroys(p) ==
  Cardinality({x \in UNION {{<<e, i>> : i \in 1..Len(evlog[e])} :
                              e \in 1..Len(evlog)} :
                 /\ evlog[x[1]][x[2]].k = "destroy"
                 /\ evlog[x[1]][x[2]].who = p})

\* C28: the registry holds exactly the live coroutines; the destructor of
\* the simulation empties it and destroys each of them once, and leaves a
\* coroutine that returned or was destroyed through an abort as it is.
C28_RegistryHoldsLiveCoroutines ==
  ~crashed =>
    /\ handles_ = Live
    /\ \A p \in 1..Len(procs) :
         /\ Destroys(p) <= 1
         /\ Destroys(p) = 1 <=> procs[p].status = "destroyed"
    /\ LET r == simulation_destructor(St)
       IN /\ ~r.crashed
          /\ r.handles_ = {}
          /\ \A p \in 1..Len(procs) :
               r.procs[p].status =
                 IF p \in Live THEN "destroyed" ELSE procs[p].status

\* One coroutine returned, one was destroyed through an abort and one is
\* suspended when the simulation is destroyed.
C28_Witness ==
  /\ ~crashed
  /\ \E p, q, r \in 1..Len(procs) :
       /\ procs[p].status = "done"
       /\ procs[q].status = "destroyed"
       /\ procs[r].status = "suspended"
       /\ simulation_destructor(St).procs[r].status = "destroyed"

\* ------------------------------------------------------------ C29
\* The main program called clock_proc(sim, "slow", 2) and then
\* clock_proc(sim, "fast", 1).
SlowThenFast ==
  /\ Len(procs) = 2
  /\ procs[1].body = clock_proc(2)
  /\ procs[2].body = clock_proc(1)

\* The output of the README: slow is coroutine 1, fast is coroutine 2.
ClockOutput ==
  <<[who |-> 1, t |-> 0], [who |-> 2, t |-> 0], [who |-> 2, t |-> 1],
    [who |-> 1, t |-> 2], [who |-> 2, t |-> 2], [who |-> 2, t |-> 3],
    [who |-> 1, t |-> 4], [who |-> 2, t |-> 4]>>

\* C29: with the clocks slow and fast started in this order at time 0 and
\* nothing run before, run_until(5)
\* prints at 0,0,1,2,2,3,4,4 in the order slow, fast, fast, slow, fast, fast,
\* slow, fast, prints nothing at time 5 and returns with now() = 5.
C29_ClocksOfTheReadme ==
  (SlowThenFast /\ now_ = 0 /\ popped = <<>>) =>
    LET r == run_until(St, ClockEnd)
    IN /\ r.printed = ClockOutput
       /\ r.now_ = ClockEnd
       /\ \A x \in r.scheduled_evs_ : x.time_ >= ClockEnd

\* run_until(5) returned: both clocks wait for an entry at time 5 or later.
C29_Witness ==
  /\ SlowThenFast
  /\ now_ = ClockEnd
  /\ Len(popped) = Len(ClockOutput)
  /\ printed = ClockOutput
  /\ \E x \in scheduled_evs_ : x.time_ = ClockEnd

\* ------------------------------------------------------------ C30
\* The events request() returned; their numbers are in the order of the
\* calls.
Requests ==
  {e \in 1..Len(evs) : \E i \in 1..Len(evlog[e]) : evlog[e][i].k = "request"}

\* Three users that hold the instance for 10 were started at time 0 on a
\* resource of one instance, and nothing else was done.
ThreeUsers ==
  /\ Len(procs) = 3
  /\ \A p \in 1..3 : procs[p].body = resource_user(10)
  /\ now_ = 0
  /\ popped = <<>>
  /\ available_ = 1
  /\ budget.events = MaxMainRequests
  /\ budget.releases = MaxMainReleases

\* The times the users got the instance, in the order of their calls.
Grants ==
  <<[who |-> 1, t |-> 0], [who |-> 2, t |-> 10], [who |-> 3, t |-> 20]>>

\* C30: no request is triggered while an earlier request that is not aborted
\* is Pending, and three users of a resource of one instance that hold it for
\* 10 get it at 0, 10 and 20.
C30_RequestsGrantedInOrder ==
  /\ \A a, b \in Requests :
       (a < b /\ pending(St, a)) => ~triggered(St, b)
  /\ ThreeUsers =>
       LET r == run(St)
       IN /\ r.printed = Grants
          /\ r.now_ = 30
          /\ r.available_ = 1

\* The three users made their requests, got the instance at 0, 10 and 20
\* and ran to the end.
C30_Witness ==
  /\ Len(procs) = 3
  /\ printed = Grants
  /\ \A p \in 1..3 : procs[p].status = "done"
  /\ Cardinality(Requests) = 3

\* ------------------------------------------------------------ C31
\* The release() calls of the users (a user returns after its release) and
\* the grants not yet released.
UserReleases ==
  Cardinality({p \in 1..Len(procs) : procs[p].status = "done"})
HeldInstances == Cardinality(Granted) - MainReleases - UserReleases

\* C31: when release() is only called by holders of a granted request,
\* available() plus the number of granted and not released requests is the
\* initial count and keeps its value over every call, available() is not
\* negative and the number of held instances is between zero and the count.
C31_InstancesConserved ==
  /\ [](/\ available_ >= 0
        /\ HeldInstances >= 0
        /\ available_ + HeldInstances \in Capacities)
  /\ [][available_' + HeldInstances' = available_ + HeldInstances]_vars

\* Every instance is held, a request waits in the queue, and an instance
\* was released and granted again before.
C31_Witness ==
  /\ available_ = 0
  /\ UserReleases > 0
  /\ MainReleases > 0
  /\ HeldInstances > 0
  /\ \E i \in 1..Len(requests_) : pending(St, requests_[i])

\* ------------------------------------------------------------ C32
\* The test: resource_user(10), the coroutine that gives up after 5 and
\* resource_user(5), started at time 0 on a resource of one instance.
GivesUpBetweenUsers ==
  /\ Len(procs) = 3
  /\ procs[1].body = resource_user(10)
  /\ procs[2].body = impatient_user
  /\ procs[3].body = resource_user(5)
  /\ now_ = 0
  /\ popped = <<>>
  /\ available_ = 1

\* C32: a request aborted in the queue is never triggered; while an instance
\* is available no request waits; of two requests the later is not
\* triggered while the earlier is Pending; and with a user that gives up
\* between two users the second user gets the instance at 10, when the
\* first releases it.
C32_AbortedRequestIsSkipped ==
  /\ \A e \in ResourceRequests :
       aborted(St, e) =>
         /\ \A i \in 1..Len(hist[e]) : hist[e][i] \in {"pending", "aborted"}
         /\ \A x \in scheduled_evs_ : x.ev_ # e
  /\ available_ > 0 =>
       \A i \in 1..Len(requests_) : ~pending(St, requests_[i])
  /\ \A a, b \in ResourceRequests :
       (a < b /\ pending(St, a)) => ~triggered(St, b)
  /\ GivesUpBetweenUsers =>
       LET r == run(St)
       IN /\ r.printed = <<[who |-> 1, t |-> 0], [who |-> 3, t |-> 10]>>
          /\ aborted(r, request_of(r, 2))
          /\ r.now_ = 15
          /\ r.available_ = 1

\* The run of the test ended: the second coroutine gave up at 5, the third
\* got the instance at 10.
C32_Witness ==
  /\ Len(procs) = 3
  /\ procs[2].body = impatient_user
  /\ \A p \in 1..3 : procs[p].status = "done"
  /\ printed = <<[who |-> 1, t |-> 0], [who |-> 3, t |-> 10]>>
  /\ \E e \in ResourceRequests : aborted(St, e)
  /\ available_ = 1

\* ------------------------------------------------------------ C33
\* The events put() and get() returned; their numbers are in the order of
\* the calls.
PutEvents ==
  {e \in 1..Len(evs) : \E i \in 1..Len(evlog[e]) : evlog[e][i].k = "put"}
GetEvents ==
  {e \in 1..Len(evs) : \E i \in 1..Len(evlog[e]) : evlog[e][i].k = "get"}

\* The value given to the put() that returned e.
PutValue(e) ==
  LET i == CHOOSE i \in 1..Len(evlog[e]) : evlog[e][i].k = "put"
  IN evlog[e][i].v

\* The puts whose value was stored and the gets that took a value.
StoredPuts == {e \in PutEvents : triggered(St, e)}
ServedGets == {e \in GetEvents : triggered(St, e)}
ProcessedGets == {e \in GetEvents : processed(St, e)}

\* The puts that returned a Pending event.
QueuedPuts ==
  {e \in PutEvents : \E i \in 1..Len(evlog[e]) : evlog[e][i].k = "queued"}

\* The literal reading: a put that returned Pending is triggered only after
\* a get has been processed.
C33_PutWaitsForProcessedGet ==
  Cardinality(QueuedPuts \cap StoredPuts) <= Cardinality(ProcessedGets)

\* The capacity bounds the store, and a put() on a full store waits.
C33_Bounded ==
  /\ Len(values_) <= capacity_
  /\ Len(values_) = Cardinality(StoredPuts) - Cardinality(ServedGets)
  /\ \A i \in 1..Len(puts_) :
       LET e == puts_[i].ev
       IN /\ pending(St, e) \/ aborted(St, e)
          /\ puts_[i].value = PutValue(e)
          /\ \A x \in scheduled_evs_ : x.ev_ # e
  /\ Len(values_) = capacity_ =>
       LET r == put(St, 0, "300")
       IN /\ pending(r, Len(r.evs))
          /\ r.values_ = values_
          /\ r.puts_[Len(r.puts_)] = [ev |-> Len(r.evs), value |-> "300"]
  /\ \A e \in PutEvents \ QueuedPuts : triggered(St, e)

\* A put is triggered only when a get has taken a value: by the callback of
\* the get when it is processed, so that no put waits for room once the heap
\* is empty, or by the next put() call.
C33_PutFollowsGet ==
  /\ Cardinality(StoredPuts) <= capacity_ + Cardinality(ServedGets)
  /\ Cardinality(QueuedPuts \cap StoredPuts) <= Cardinality(ServedGets)
  /\ (empty(St) /\ Len(values_) < capacity_) =>
       \A i \in 1..Len(puts_) : aborted(St, puts_[i].ev)

\* The main program made put(100) and put(200) on a store of capacity 1.
TwoPutsOnOne ==
  /\ capacity_ = 1
  /\ budget.puts = MaxPuts - 2
  /\ budget.gets = MaxGets
  /\ budget.procs = MaxGetters
  /\ \A e \in held : ~aborted(St, e)

\* put(100) is triggered at once, put(200) stays Pending, and after one get
\* the second put fires and the next get returns 200.
C33_Test ==
  TwoPutsOnOne =>
    LET r1 == get(run(St), 0)
        r2 == run(r1)
        r3 == get(r2, 0)
    IN /\ triggered(St, 1) /\ pending(St, 2)
       /\ values_ = <<"100">>
       /\ pending(run(St), 2)
       /\ triggered(r1, Len(r1.evs)) /\ value(r1, Len(r1.evs)) = "100"
       /\ pending(r1, 2)
       /\ processed(r2, 2) /\ r2.values_ = <<"200">>
       /\ triggered(r3, Len(r3.evs)) /\ value(r3, Len(r3.evs)) = "200"

\* C33: the number of values held never exceeds the capacity; a put() on a
\* full store returns a Pending event and its value is not stored; the
\* oldest pending put is triggered and stored only after a get has taken a
\* value (capacity 1: put(100) is triggered at once, put(200) stays Pending,
\* after one get it fires and the next get returns 200).
C33_StoreBounded == C33_Bounded /\ C33_PutFollowsGet /\ C33_Test

\* On a store of capacity 1 the second put waited, a get was processed, the
\* second put fired and the next get took 200.
C33_Witness ==
  /\ capacity_ = 1
  /\ Cardinality(StoredPuts) = 2
  /\ Cardinality(ProcessedGets) >= 1
  /\ \E g \in ServedGets : value(St, g) = "200"
  /\ \E i \in 1..Len(puts_) : pending(St, puts_[i].ev)

\* ------------------------------------------------------------ C34
\* The members of a set of events in the order of their numbers.
RECURSIVE Ascending(_)
Ascending(S) ==
  IF S = {} THEN <<>>
  ELSE LET m == CHOOSE x \in S : \A y \in S : x <= y
       IN <<m>> \o Ascending(S \ {m})

\* The values stored so far in the order they were stored, and the values
\* the served gets carry in the order of the get() calls.
StoredValues ==
  LET es == Ascending(StoredPuts)
  IN [i \in 1..Len(es) |-> PutValue(es[i])]
DeliveredValues ==
  LET es == Ascending(ServedGets)
  IN [i \in 1..Len(es) |-> value(St, es[i])]

\* C34: whenever the store holds a value, get() returns a
\* Triggered event that carries the oldest stored value.
C34_GetOnNonEmptyStoreIsServed ==
  values_ # <<>> =>
    LET r == get(St, 0)
    IN /\ triggered(r, Len(r.evs))
       /\ value(r, Len(r.evs)) = Head(values_)

\* C34: the values the served gets carry, in the order of the get() calls,
\* followed by the values held are the values stored, in the order they were
\* stored; no get is served while an earlier get is Pending; and a get() on
\* a store that holds a value and has no earlier get waiting returns a
\* Triggered event with the oldest value.
C34_StoreIsFifo ==
  /\ StoredValues = DeliveredValues \o values_
  /\ \A a, b \in GetEvents : (a < b /\ pending(St, a)) => ~triggered(St, b)
  /\ \A a, b \in PutEvents : (a < b /\ pending(St, a)) => ~triggered(St, b)
  /\ \A i \in 1..Len(gets_) :
       /\ gets_[i] \in GetEvents
       /\ pending(St, gets_[i]) \/ aborted(St, gets_[i])
  /\ (values_ # <<>> /\ \A i \in 1..Len(gets_) : aborted(St, gets_[i])) =>
       LET r == get(St, 0)
       IN /\ triggered(r, Len(r.evs))
          /\ value(r, Len(r.evs)) = Head(values_)
          /\ r.values_ = Tail(values_)

\* Two gets were served with 100 and 200 in the order of the calls, a get
\* in between was aborted, and a third value is held.
C34_Witness ==
  /\ DeliveredValues = <<"100", "200">>
  /\ values_ = <<"300">>
  /\ \E g \in GetEvents : aborted(St, g)
  /\ \E g \in ServedGets : Resumed(g) # <<>>

\* get() was called and waits; put() then stored a value and its event is not
\* processed yet; a second get() called after that put handed the value to
\* the first get and waits itself.
C34_GetWaitsBehindStoredValue ==
  /\ Cardinality(StoredPuts) = 1
  /\ \E g1, g2 \in GetEvents, p \in StoredPuts :
       /\ g1 < p /\ p < g2
       /\ ~processed(St, p)
       /\ evs[g1].state_ = "triggered"
       /\ value(St, g1) = PutValue(p)
       /\ pending(St, g2)
       /\ values_ = <<>>

\* ------------------------------------------------------------ C35
\* One heap entry is taken in this step, and the entry taken.
OnePop == Len(popped') = Len(popped) + 1
Taken == popped'[Len(popped')]

\* The heap entries made in this step.
NewEntries == scheduled_evs_' \ scheduled_evs_

\* The event of the entry taken is processed to the end in this step: every
\* coroutine that awaited it had its turn, then every callback added to it
\* was called, and no other event was processed.
C35_ProcessedToTheEnd ==
  LET e == Taken.ev_
  IN /\ Taken \in scheduled_evs_
     /\ scheduled_evs_' \cap scheduled_evs_ = scheduled_evs_ \ {Taken}
     /\ \A y \in scheduled_evs_ \ {Taken} : Before(Taken, y)
     /\ \A e2 \in (1..Len(evs)) \ {e} : processed(St', e2) <=> processed(St, e2)
     /\ (~processed(St, e) /\ ~aborted(St, e)) =>
          /\ processed(St', e)
          /\ evs'[e].promises_ = <<>> /\ evs'[e].cbs_ = <<>>
          /\ Who(Sel(evlog'[e], {"resume", "destroy"})) =
               Who(Turns(e)) \o evs[e].promises_
          /\ Len(Sel(evlog'[e], {"cb"})) = Len(Called(e)) + Len(evs[e].cbs_)
          /\ Sel(evlog'[e], {"resume", "destroy", "cb"}) =
               Sel(evlog'[e], {"resume", "destroy"})
                 \o Sel(evlog'[e], {"cb"})
          /\ \A x \in Range(Sel(evlog'[e], {"resume", "destroy", "cb"})) :
               x.t = now_'

\* What a resumed coroutine or a callback triggered or scheduled in this
\* step is queued at now() or later, behind every entry that was queued
\* before for the same or an earlier time and ahead of every later one.
C35_TriggeredQueuedBehind ==
  /\ \A x \in NewEntries :
       /\ x.time_ >= now_'
       /\ \A y \in scheduled_evs_ \ {Taken} :
            IF y.time_ <= x.time_ THEN Before(y, x) ELSE Before(x, y)
  /\ \A e2 \in 1..Len(evs) :
       (pending(St, e2) /\ evs'[e2].state_ = "triggered") =>
         \E x \in NewEntries : x.ev_ = e2 /\ x.time_ = now_'

\* C35: a step that takes one heap entry processes its event to the end
\* before any other entry is handled, awaiters first and callbacks then, and
\* what they trigger is processed later at the same time: its entry is at
\* now(), after the entries queued before for that time and before the
\* entries of a later time; every event is processed at the time of the
\* entry taken for it.
C35_ProcessRunsToCompletion ==
  /\ [][OnePop => (C35_ProcessedToTheEnd /\ C35_TriggeredQueuedBehind)]_vars
  /\ [](\A e \in 1..Len(evs) :
          processed(St, e) =>
            \E i \in 1..Len(popped) :
              /\ popped[i].ev_ = e
              /\ ProcessedAt(e)[1].t = popped[i].time_)

\* A coroutine resumed at a time later than 0 triggered an event that was
\* processed after an entry queued before it for the same time.
C35_Witness ==
  \E i, j \in 1..Len(popped) :
    /\ i < j - 1
    /\ popped[i].time_ > 0
    /\ popped[j].time_ = popped[i].time_
    /\ Resumed(popped[i].ev_) # <<>>
    /\ popped[j].id_ > popped[j - 1].id_
    /\ processed(St, popped[j].ev_)
    /\ ProcessedAt(popped[j].ev_)[1].t = popped[i].time_
    /\ \E p \in 1..Len(procs) :
         /\ procs[p].ev_ = popped[j].ev_
         /\ Resumed(popped[i].ev_)[1].who = p

\* ------------------------------------------------------------ C36
\* The next entry of the heap belongs to an event that is already Processed
\* or Aborted.
StaleTop ==
  /\ ~empty(St)
  /\ LET e == top(scheduled_evs_).ev_ IN processed(St, e) \/ aborted(St, e)

\* C36: step() on an entry whose event is already Processed or Aborted
\* notifies nobody and leaves now() unchanged.
C36_StaleEntryLeavesNow ==
  StaleTop =>
    LET r == step(St)
    IN /\ r.evlog = evlog
       /\ r.seen = seen
       /\ r.evs = evs
       /\ r.now_ = now_

\* What does hold: step() on such an entry notifies nobody and changes no
\* event, and sets now() to the time of the entry.
C36_StaleEntryNotifiesNobody ==
  StaleTop =>
    LET r == step(St)
    IN /\ r.evlog = evlog
       /\ r.seen = seen
       /\ r.evs = evs
       /\ r.now_ = top(scheduled_evs_).time_

\* The last entry taken belonged to an Aborted event that was never
\* processed, and now() is its time although nothing happened at that time.
C36_Witness ==
  /\ popped # <<>>
  /\ LET x == popped[Len(popped)]
     IN /\ aborted(St, x.ev_)
        /\ now_ = x.time_
        /\ now_ > 0
        /\ \A i \in 1..Len(seen) : seen[i] < now_
        /\ \A e \in 1..Len(evs) :
             \A i \in 1..Len(evlog[e]) : evlog[e][i].t < now_

\* ------------------------------------------------------------ C37
\* The events in whose awaiter list coroutine p stands in state s.
AwaitedBy(s, p) ==
  {e \in 1..Len(s.evs) : p \in Range(s.evs[e].promises_)}

\* run() from the present state: it returns with an empty heap, after it
\* took every entry that was queued or was made on the way; no event is
\* Triggered then; a coroutine that is suspended then waits for a Pending
\* event, and one that waited for such an event all along was not resumed.
RunReturnsOnEmptyHeap ==
  ~crashed =>
    LET r == run(St)
    IN r.crashed \/
       /\ empty(r)
       /\ Len(r.popped) - Len(popped)
            = Cardinality(scheduled_evs_) + (r.next_id_ - next_id_)
       /\ \A e \in 1..Len(r.evs) : r.evs[e].state_ # "triggered"
       /\ \A p \in 1..Len(r.procs) :
            r.procs[p].status = "suspended" =>
              /\ AwaitedBy(r, p) # {}
              /\ \A e \in AwaitedBy(r, p) : pending(r, e)
       /\ \A p \in 1..Len(procs) :
            (/\ procs[p].status = "suspended"
             /\ \E e \in AwaitedBy(St, p) : pending(r, e))
              => r.procs[p] = procs[p]

\* One turn of the loop of run(): while the heap is not empty the next entry
\* is taken from it (the rest of the turn is step()).
TakeEntry ==
  /\ ~crashed
  /\ ~empty(St)
  /\ popped' = Append(popped, top(scheduled_evs_))

\* run() goes on: its loop takes another entry as long as the heap is not
\* empty. The main program makes finitely many calls.
FairRun == SpecActors /\ WF_popped(TakeEntry)

\* C37: run() returns exactly when the heap is empty: coroutines suspended
\* on events that are never triggered are not resumed and do not keep it
\* going, no event is Triggered when it returns, and with finitely many
\* entries it terminates.
C37_RunEndsOnEmptyHeap ==
  /\ []RunReturnsOnEmptyHeap
  /\ <>[](empty(St) \/ crashed)

\* run() has returned on an empty heap at a later time while a coroutine is
\* still suspended on an event that is Pending.
C37_Witness ==
  /\ ~crashed
  /\ empty(St)
  /\ now_ > 0
  /\ popped # <<>>
  /\ \E p \in 1..Len(procs) :
       /\ procs[p].status = "suspended"
       /\ \E e \in AwaitedBy(St, p) : pending(St, e)

\* ------------------------------------------------------------ C38
\* The entries of event e in heap q.
QueuedFor(q, e) == {x \in q : x.ev_ = e}

\* No heap entry lies in the past, and every Triggered event has a heap
\* entry.
HeapFromNow ==
  ~crashed =>
    /\ \A x \in scheduled_evs_ : x.time_ >= now_
    /\ \A e \in 1..Len(evs) :
         evs[e].state_ = "triggered" => QueuedFor(scheduled_evs_, e) # {}

\* An event that has become Triggered has a new heap entry at now(); an
\* event that stays Triggered keeps every heap entry it had.
TriggeredKeepsEntry ==
  ~crashed' =>
    \A e \in 1..Len(evs') :
      evs'[e].state_ = "triggered" =>
        IF e <= Len(evs) /\ evs[e].state_ = "triggered"
        THEN QueuedFor(scheduled_evs_, e) \subseteq scheduled_evs_'
        ELSE \E x \in QueuedFor(scheduled_evs_', e) :
               /\ x.time_ = now_'
               /\ x.id_ >= next_id_

\* C38: with delays >= 0 and run_until targets >= now(), every heap entry
\* has time >= now(), and every Triggered event has a heap entry at the time
\* at which it was triggered.
C38_HeapIsNotInThePast ==
  /\ []HeapFromNow
  /\ [][TriggeredKeepsEntry]_vars

\* Time has advanced, an event triggered now has its entry at now() and has
\* another entry later (it is a timeout), and an entry of another event
\* waits as well.
C38_Witness ==
  /\ ~crashed
  /\ now_ > 0
  /\ \E e \in 1..Len(evs) :
       /\ evs[e].state_ = "triggered"
       /\ \E x, y \in QueuedFor(scheduled_evs_, e) :
            x.time_ = now_ /\ y.time_ > now_
       /\ \E z \in scheduled_evs_ : z.ev_ # e

\* ------------------------------------------------------------ C39
\* The coroutines that were destroyed.
Gone == {p \in 1..Len(procs) : procs[p].status = "destroyed"}

\* The coroutines suspended on event e.
AwaitersOf(s, e) == Range(s.evs[e].promises_)

\* abort() of a Pending event with suspended coroutines, from the present
\* state: each of them is destroyed and leaves the registry, its completion
\* event is as it was, and the coroutines suspended on that completion event
\* are as they were.
AbortSparesCompletionEvents ==
  \A e \in 1..Len(evs) :
    (pending(St, e) /\ AwaitersOf(St, e) # {}) =>
      LET r == abort(St, e)
      IN \A p \in AwaitersOf(St, e) :
           /\ r.procs[p].status = "destroyed"
           /\ p \notin r.handles_
           /\ r.evs[procs[p].ev_] = evs[procs[p].ev_]
           /\ r.hist[procs[p].ev_] = hist[procs[p].ev_]
           /\ \A q \in AwaitersOf(St, procs[p].ev_) : r.procs[q] = procs[q]

\* The completion event of a destroyed coroutine was never triggered or
\* processed and notified nobody; the coroutines suspended on it are
\* suspended still, and the destructor of the simulation destroys them.
DestroyedNeverCompletes ==
  \A p \in Gone :
    LET ev == procs[p].ev_
    IN /\ pending(St, ev) \/ aborted(St, ev)
       /\ "triggered" \notin Range(hist[ev])
       /\ "processed" \notin Range(hist[ev])
       /\ Sel(evlog[ev], {"resume", "cb", "processed"}) = <<>>
       /\ \A q \in AwaitersOf(St, ev) :
            /\ procs[q].status = "suspended"
            /\ simulation_destructor(St).procs[q].status = "destroyed"

\* A coroutine suspended on the Pending completion event of a destroyed
\* coroutine stays as it is, unless that event is aborted and the coroutine
\* destroyed with it.
WaitsUntilAborted ==
  \A p \in Gone :
    LET ev == procs[p].ev_
    IN pending(St, ev) =>
         \A q \in AwaitersOf(St, ev) :
           \/ /\ evs'[ev].state_ = "pending"
              /\ q \in Range(evs'[ev].promises_)
              /\ procs'[q] = procs[q]
           \/ /\ evs'[ev].state_ = "aborted"
              /\ procs'[q].status = "destroyed"

\* C39: aborting an event destroys the coroutines suspended on it and leaves
\* their completion events Pending: these are never triggered, and a
\* coroutine awaiting one is never resumed and is destroyed only by a
\* further abort or by the destructor of the simulation.
C39_AbortedAwaitersNeverComplete ==
  /\ [](~crashed => AbortSparesCompletionEvents /\ DestroyedNeverCompletes)
  /\ [][~crashed' => WaitsUntilAborted]_vars

\* A coroutine was destroyed by the abort of the event it was suspended on,
\* another coroutine is suspended on its completion event, which is Pending,
\* and run() has emptied the heap at a later time.
C39_Witness ==
  /\ ~crashed
  /\ empty(St)
  /\ now_ > 0
  /\ \E p \in Gone :
       /\ pending(St, procs[p].ev_)
       /\ AwaitersOf(St, procs[p].ev_) # {}
       /\ \E e \in 1..Len(evs) :
            /\ aborted(St, e)
            /\ \E i \in 1..Len(evlog[e]) :
                 evlog[e][i].k = "destroy" /\ evlog[e][i].who = p

\* ------------------------------------------------------------ C40
\* How many notes of kind k the history log holds for coroutine p.
NotesOf(log, p, k) ==
  Cardinality({x \in UNION {{<<e, i>> : i \in 1..Len(log[e])} :
                              e \in 1..Len(log)} :
                 log[x[1]][x[2]].k = k /\ log[x[1]][x[2]].who = p})

\* How often coroutine p stands in the awaiter list of event e.
TimesIn(e, p) ==
  Cardinality({i \in 1..Len(evs[e].promises_) : evs[e].promises_[i] = p})

\* A suspended coroutine stands once in the awaiter list of one event, which
\* is Pending or Triggered, and is in the registry; a coroutine that
\* returned, failed or was destroyed is in no awaiter list and not in the
\* registry.  Every resume took up one suspension, a coroutine was destroyed
\* once at most, and nothing was resumed or destroyed after its end.
RegisteredOnce ==
  \A p \in 1..Len(procs) :
    LET suspends == NotesOf(evlog, p, "suspend")
        resumes  == NotesOf(evlog, p, "resume")
        destroys == NotesOf(evlog, p, "destroy")
    IN CASE procs[p].status = "suspended" ->
              /\ Cardinality(AwaitedBy(St, p)) = 1
              /\ \A e \in AwaitedBy(St, p) :
                   /\ TimesIn(e, p) = 1
                   /\ evs[e].state_ \in {"pending", "triggered"}
              /\ p \in handles_
              /\ suspends = resumes + 1
              /\ destroys = 0
         [] procs[p].status \in {"done", "failed"} ->
              /\ AwaitedBy(St, p) = {}
              /\ p \notin handles_
              /\ suspends = resumes
              /\ destroys = 0
         [] procs[p].status = "destroyed" ->
              /\ AwaitedBy(St, p) = {}
              /\ p \notin handles_
              /\ suspends \in {resumes, resumes + 1}
              /\ destroys = 1
         [] OTHER -> FALSE

\* A coroutine that returned, failed or was destroyed is not touched again.
EndedStaysEnded ==
  \A p \in 1..Len(procs) :
    procs[p].status \in {"done", "failed", "destroyed"} =>
      /\ procs'[p] = procs[p]
      /\ NotesOf(evlog', p, "resume") = NotesOf(evlog, p, "resume")
      /\ NotesOf(evlog', p, "destroy") = NotesOf(evlog, p, "destroy")
      /\ NotesOf(evlog', p, "suspend") = NotesOf(evlog, p, "suspend")

\* The destructor of the simulation, from the present state: it destroys the
\* suspended coroutines and no coroutine that ended before.
DestructorSparesEnded ==
  LET r == simulation_destructor(St)
  IN \A p \in 1..Len(procs) :
       /\ r.procs[p].status # "destroyed twice"
       /\ procs[p].status # "suspended" => r.procs[p] = procs[p]
       /\ procs[p].status = "suspended" => r.procs[p].status = "destroyed"

\* C40: a live suspended coroutine is registered with exactly one event and
\* in the registry, one that returned or was destroyed is in neither, and no
\* trigger, abort, process or destruction of the simulation resumes or
\* destroys a coroutine that was destroyed or had returned.
C40_RegisteredWithOneEvent ==
  /\ [](~crashed => RegisteredOnce /\ DestructorSparesEnded)
  /\ [][~crashed' => EndedStaysEnded]_vars

\* One coroutine returned after it was resumed, one was destroyed by an
\* abort, and the event the destroyed one waited for had an entry that was
\* taken afterwards.
C40_Witness ==
  /\ ~crashed
  /\ \E p, q \in 1..Len(procs) :
       /\ procs[p].status = "done"
       /\ NotesOf(evlog, p, "resume") >= 2
       /\ procs[q].status = "destroyed"
       /\ NotesOf(evlog, q, "suspend") >= 2
       /\ \E x \in Range(popped) :
            /\ aborted(St, x.ev_)
            /\ \E i \in 1..Len(evlog[x.ev_]) :
                 evlog[x.ev_][i].k = "destroy" /\ evlog[x.ev_][i].who = q

====
